---- MODULE Spec2Model ----
(***************************************************************************)
(* A model of the nstream SOCKS5 endpoint: the wire codec of the Socks5    *)
(* crate (src/Socks5/src/protocol) and the per-connection session task of  *)
(* the CLI (src/CLI/src/main.rs): greeting, request, command dispatch, the *)
(* CONNECT relay (tokio copy_bidirectional) and the UDP ASSOCIATE relay    *)
(* (a three-way tokio::select! loop), under the accept loop of main (Spec, *)
(* FairSpec); and the codec applied on its own to drawn values (CodecSpec).*)
(***************************************************************************)
EXTENDS Integers, Sequences, FiniteSets, TLC

VARIABLES
    pc,          \* position of the session task
    inbuf,       \* octets received on the client TCP stream, not yet read
    out,         \* octets the server has written to the client TCP stream
    offered,     \* methods of the decoded HandshakeRequest
    hrespN,      \* octets of the HandshakeResponse that were written
    tellreq,     \* the decoded TellRequest (NoReq before)
    dest,        \* tellreq_addr: the resolved SocketAddr (NoAddr before)
    failure,     \* why the session ended early ("none" if it did not)
    setupErr,    \* ErrorKind of the failed connect ("none" if it succeeded)
    rep,         \* ReplyField of the ReplyResponse handed to respond_with
    replies,     \* number of ReplyResponses completely written
    closes,      \* number of times the client TCP stream was closed (dropped)
    shutdowns,   \* number of shutdown(Write) calls made on the client stream
    outbound,    \* outbound TCP stream: "none", "open", "closed"
    c2o,         \* CONNECT relay, client -> outbound: "run", "done"
    o2c,         \* CONNECT relay, outbound -> client: "run", "done"
    nC2O,        \* octets copied client -> outbound (saturating)
    nO2C,        \* octets copied outbound -> client (saturating)
    lateCopy,    \* a copy happened after one direction had reached EOF
    sockC,       \* client-facing UDP socket: "none", "open", "closed"
    sockO,       \* origin-facing UDP socket: "none", "open", "closed"
    tState,      \* controlling TCP stream as the server reads it: "open", "eof", "err"
    incoming,    \* incoming_addr: the slot holding the last client endpoint
    upHeld,      \* upstream leg: packet received on C, not yet sent on O
    downHeld,    \* downstream leg: payload received on O, not yet sent on C
    nUp,         \* payloads forwarded to the origin (saturating)
    nDown,       \* datagrams forwarded to the client (saturating)
    upDropped,   \* client datagrams dropped by the decoder (saturating)
    loopback,    \* datagram C sent to its own address, not yet delivered to C
    sentDown,    \* the last datagram the downstream leg sent on C
    sentUp,      \* the last payload the upstream leg sent on O
    nCtl,        \* data octets wait_closed has read off the controlling stream and dropped
    listener,    \* the TcpListener of main: "unbound", "bound", "accepting",
                 \* "stopped"
    nFailed,     \* sessions that ended with a failure (saturating)
    test,        \* codec under test: "none" while a session is followed
    input,       \* what the codec under test is applied to
    result,      \* what it returned
    done,        \* the codec under test has been applied
    mainPc,      \* position of main
    mainExit,    \* how the process ended: "running" while it has not
    sigPc,       \* the task of register_graceful_shutdown: "waiting", "dead"
    calls,       \* calls made to the proxy enabler, with their outcome
    proxy,       \* the SOCKS proxy setting of the system: "on", "off"
    lan6,        \* my_lanip_v6addr: "none", "lan", "loopback"
    lan4,        \* my_lanip_v4addr: "none", "lan", "loopback"
    served       \* connections main has accepted (saturating)

vars == <<pc, inbuf, out, offered, hrespN, tellreq, dest, failure,
          setupErr, rep, replies, closes, shutdowns, outbound, c2o, o2c, nC2O,
          nO2C, lateCopy, sockC, sockO, tState, incoming, upHeld, downHeld,
          nUp, nDown, upDropped, loopback, sentDown, sentUp, nCtl, listener, nFailed, test,
          input, result,
          done, mainPc, mainExit, sigPc, calls, proxy, lan6, lan4, served>>

----------------------------------------------------------------------------
(* Bounds of the model *)

\* saturation point of the relay counters
MaxCount == 1

\* saturation point of the count of accepted connections
MaxServed == 2

\* most data octets the client sends on the controlling stream of one UDP
\* relay
MaxPending == 1

(* Program constants *)

SOCKS_VERSION == 5
AUTH_VERSION == 1
RSV_RESERVED == 0

----------------------------------------------------------------------------
(* Octet helpers *)

Min(a, b) == IF a <= b THEN a ELSE b

Take(s, n) == SubSeq(s, 1, Min(n, Len(s)))

DropN(s, n) == SubSeq(s, n + 1, Len(s))

Sat(n) == Min(n + 1, MaxCount)

\* u16::to_be_bytes
U16ToBe(v) == <<(v \div 256) % 256, v % 256>>

\* u16::from_be_bytes
U16FromBe(hi, lo) == hi * 256 + lo

Fail == [ok |-> FALSE]

\* AsyncReadExt::read_u8: one octet or UnexpectedEof
ReadU8(b) ==
    IF Len(b) >= 1 THEN [ok |-> TRUE, val |-> b[1], rest |-> Tail(b)] ELSE Fail

\* AsyncReadExt::read_u16: two octets, big-endian, or UnexpectedEof
ReadU16(b) ==
    IF Len(b) >= 2
    THEN [ok |-> TRUE, val |-> U16FromBe(b[1], b[2]), rest |-> DropN(b, 2)]
    ELSE Fail

----------------------------------------------------------------------------
(* Wire primitives *)

AuthMethodFrom(x) ==
    CASE x = 0 -> "NoAuthenticationRequired"
      [] x = 1 -> "GSSApi"
      [] x = 2 -> "UsernameOrPassword"
      [] x >= 3 /\ x <= 127 -> "IANAAssigned"
      [] x >= 128 /\ x <= 254 -> "ReservedForPrivateMethods"
      [] OTHER -> "NoAcceptableMethods"

\* an encoder with the octets of GSSAPI and USERNAME/PASSWORD exchanged
AuthMethodInto_Swapped(m) ==
    CASE m = "NoAuthenticationRequired" -> 0
      [] m = "GSSApi" -> 2
      [] m = "UsernameOrPassword" -> 1
      [] m = "IANAAssigned" -> 3
      [] m = "ReservedForPrivateMethods" -> 128
      [] OTHER -> 255

AuthMethodInto(m) ==
    CASE m = "NoAuthenticationRequired" -> 0
      [] m = "GSSApi" -> 1
      [] m = "UsernameOrPassword" -> 2
      [] m = "IANAAssigned" -> 3
      [] m = "ReservedForPrivateMethods" -> 128
      [] OTHER -> 255

\* a decoder that does not know UDP ASSOCIATE
CommandTryFrom_NoUdp(x) ==
    CASE x = 1 -> [ok |-> TRUE, val |-> "Connect"]
      [] x = 2 -> [ok |-> TRUE, val |-> "Bind"]
      [] OTHER -> Fail

CommandTryFrom(x) ==
    CASE x = 1 -> [ok |-> TRUE, val |-> "Connect"]
      [] x = 2 -> [ok |-> TRUE, val |-> "Bind"]
      [] x = 3 -> [ok |-> TRUE, val |-> "UdpAssociate"]
      [] OTHER -> Fail

CommandInto(c) ==
    CASE c = "Connect" -> 1
      [] c = "Bind" -> 2
      [] OTHER -> 3

AddressTypeTryFrom(x) ==
    CASE x = 1 -> [ok |-> TRUE, val |-> "IPV4"]
      [] x = 3 -> [ok |-> TRUE, val |-> "FQDN"]
      [] x = 4 -> [ok |-> TRUE, val |-> "IPV6"]
      [] OTHER -> Fail

AddressTypeInto(t) ==
    CASE t = "IPV4" -> 1
      [] t = "FQDN" -> 3
      [] OTHER -> 4

ReplyFieldFromU8(x) ==
    CASE x = 0 -> "Succeeded"
      [] x = 1 -> "GeneralSocksServerFailure"
      [] x = 2 -> "ConnectionNotAllowedByRuleSet"
      [] x = 3 -> "NetworkUnreachable"
      [] x = 4 -> "HostUnreachable"
      [] x = 5 -> "ConnectionRefused"
      [] x = 6 -> "TTLExpired"
      [] x = 7 -> "CommandNotSupported"
      [] x = 8 -> "AddressTypeNotSupported"
      [] OTHER -> "Unassigned"

ReplyFieldInto(r) ==
    CASE r = "Succeeded" -> 0
      [] r = "GeneralSocksServerFailure" -> 1
      [] r = "ConnectionNotAllowedByRuleSet" -> 2
      [] r = "NetworkUnreachable" -> 3
      [] r = "HostUnreachable" -> 4
      [] r = "ConnectionRefused" -> 5
      [] r = "TTLExpired" -> 6
      [] r = "CommandNotSupported" -> 7
      [] r = "AddressTypeNotSupported" -> 8
      [] OTHER -> 9

\* the std::io::ErrorKind values the model draws failures from
ErrorKinds ==
    {"ConnectionRefused", "ConnectionReset", "NotConnected", "ConnectionAborted",
     "TimedOut", "Other", "PermissionDenied", "HostUnreachable"}

\* a mapping that sends a refused connection to the general failure
ReplyFieldFromError_RefusedAsGeneral(kind) ==
    CASE kind \in {"ConnectionRefused", "ConnectionReset", "NotConnected"} ->
            "GeneralSocksServerFailure"
      [] kind = "ConnectionAborted" -> "ConnectionNotAllowedByRuleSet"
      [] kind = "TimedOut" -> "NetworkUnreachable"
      [] OTHER -> "Unassigned"

\* a mapping that reports a timeout as an expired TTL
ReplyFieldFromError_TimeoutAsTTL(kind) ==
    CASE kind = "ConnectionRefused" -> "ConnectionRefused"
      [] kind \in {"ConnectionReset", "NotConnected"} -> "GeneralSocksServerFailure"
      [] kind = "ConnectionAborted" -> "ConnectionNotAllowedByRuleSet"
      [] kind = "TimedOut" -> "TTLExpired"
      [] OTHER -> "Unassigned"

ReplyFieldFromError(kind) ==
    CASE kind = "ConnectionRefused" -> "ConnectionRefused"
      [] kind \in {"ConnectionReset", "NotConnected"} -> "GeneralSocksServerFailure"
      [] kind = "ConnectionAborted" -> "ConnectionNotAllowedByRuleSet"
      [] kind = "TimedOut" -> "NetworkUnreachable"
      [] OTHER -> "Unassigned"

\* From<&Result<_, Error>>: "none" stands for Ok(_)
ReplyFieldFromResult(kind) ==
    IF kind = "none" THEN "Succeeded" ELSE ReplyFieldFromError(kind)

----------------------------------------------------------------------------
(* Address codec *)

SafeGet(b, i) == IF i <= Len(b) THEN b[i] ELSE 0

IsCont(x) == x >= 128 /\ x <= 191

\* second octet allowed after the lead octet f of a three-octet sequence
Sec3(f, s) ==
    \/ f = 224 /\ s >= 160 /\ s <= 191
    \/ f >= 225 /\ f <= 236 /\ IsCont(s)
    \/ f = 237 /\ s >= 128 /\ s <= 159
    \/ f >= 238 /\ f <= 239 /\ IsCont(s)

\* second octet allowed after the lead octet f of a four-octet sequence
Sec4(f, s) ==
    \/ f = 240 /\ s >= 144 /\ s <= 191
    \/ f >= 241 /\ f <= 243 /\ IsCont(s)
    \/ f = 244 /\ s >= 128 /\ s <= 143

\* the chunk at the head of a non-empty b: a valid scalar value of n octets, or
\* an invalid sequence of n octets (the maximal prefix of a valid sequence)
Utf8Step(b) ==
    LET f == b[1] IN
    CASE f < 128 -> [valid |-> TRUE, n |-> 1]
      [] f >= 194 /\ f <= 223 ->
            IF IsCont(SafeGet(b, 2)) THEN [valid |-> TRUE, n |-> 2]
            ELSE [valid |-> FALSE, n |-> 1]
      [] f >= 224 /\ f <= 239 ->
            IF ~Sec3(f, SafeGet(b, 2)) THEN [valid |-> FALSE, n |-> 1]
            ELSE IF ~IsCont(SafeGet(b, 3)) THEN [valid |-> FALSE, n |-> 2]
            ELSE [valid |-> TRUE, n |-> 3]
      [] f >= 240 /\ f <= 244 ->
            IF ~Sec4(f, SafeGet(b, 2)) THEN [valid |-> FALSE, n |-> 1]
            ELSE IF ~IsCont(SafeGet(b, 3)) THEN [valid |-> FALSE, n |-> 2]
            ELSE IF ~IsCont(SafeGet(b, 4)) THEN [valid |-> FALSE, n |-> 3]
            ELSE [valid |-> TRUE, n |-> 4]
      [] OTHER -> [valid |-> FALSE, n |-> 1]

RECURSIVE Utf8Lossy(_)
\* String::from_utf8_lossy, as the octets of the resulting String: octets
\* that are all ASCII are kept as they are; otherwise every invalid sequence
\* becomes U+FFFD (EF BF BD)
Utf8Lossy(b) ==
    IF \A i \in 1..Len(b) : b[i] < 128 THEN b
    ELSE LET st == Utf8Step(b) IN
         (IF st.valid THEN Take(b, st.n) ELSE <<239, 191, 189>>)
            \o Utf8Lossy(DropN(b, st.n))

Zeros(n) == [i \in 1..n |-> 0]

\* Address::IP(V4) holds four octets, Address::IP(V6) eight 16-bit segments,
\* Address::Domain the octets of the name
AddrV4(host, port) == [kind |-> "V4", host |-> host, port |-> port]
AddrV6(host, port) == [kind |-> "V6", host |-> host, port |-> port]
AddrDomain(name, port) == [kind |-> "Domain", host |-> name, port |-> port]

AddressDefault == AddrV4(<<0, 0, 0, 0>>, 0)

\* Address::from_socks_bytes on the octets b the reader can still deliver; got
\* is the number of octets the one read call for the name returns at most
AddressFromSocksBytes(b, atyp, got) ==
    CASE atyp = "IPV4" ->
            IF Len(b) < 6 THEN Fail
            ELSE [ok |-> TRUE,
                  val |-> AddrV4(Take(b, 4), U16FromBe(b[5], b[6])),
                  rest |-> DropN(b, 6)]
      [] atyp = "FQDN" ->
            LET l == ReadU8(b) IN
            IF ~l.ok THEN Fail
            ELSE LET dnlen == l.val
                     n == Min(got, Min(dnlen, Len(l.rest)))
                     buf == Take(l.rest, n) \o Zeros(dnlen - n)
                     p == ReadU16(DropN(l.rest, n))
                 IN IF ~p.ok THEN Fail
                    ELSE [ok |-> TRUE,
                          val |-> AddrDomain(Utf8Lossy(buf), p.val),
                          rest |-> p.rest]
      [] OTHER ->
            IF Len(b) < 18 THEN Fail
            ELSE [ok |-> TRUE,
                  val |-> AddrV6([i \in 1..8 |-> U16FromBe(b[2 * i - 1], b[2 * i])],
                                 U16FromBe(b[17], b[18])),
                  rest |-> DropN(b, 18)]

\* Ipv6Addr::octets
V6Octets(segs) ==
    [i \in 1..16 |-> IF i % 2 = 1 THEN segs[(i + 1) \div 2] \div 256
                     ELSE segs[i \div 2] % 256]

\* a serializer that leaves out the length octet of a domain name
AddressAsSocksBytes_NoLength(a) ==
    (CASE a.kind = "V4" -> a.host
       [] a.kind = "V6" -> V6Octets(a.host)
       [] OTHER -> a.host)
    \o U16ToBe(a.port)

\* Address::as_socks_bytes
AddressAsSocksBytes(a) ==
    (CASE a.kind = "V4" -> a.host
       [] a.kind = "V6" -> V6Octets(a.host)
       [] OTHER -> <<Len(a.host) % 256>> \o a.host)
    \o U16ToBe(a.port)

\* Address::len
AddressLen(a) ==
    (CASE a.kind = "V4" -> 4
       [] a.kind = "V6" -> 16
       [] OTHER -> Len(a.host))
    + 2

\* impl From<Address> for AddressType
AddressTypeFromAddress(a) ==
    CASE a.kind = "V4" -> "IPV4"
      [] a.kind = "V6" -> "IPV6"
      [] OTHER -> "FQDN"

----------------------------------------------------------------------------
(* Addresses as text: a text is a sequence of characters *)

\* the value of a hexadecimal digit
HexVal ==
    [c \in {"0", "1", "2", "3", "4", "5", "6", "7", "8", "9",
            "a", "b", "c", "d", "e", "f", "A", "B", "C", "D", "E", "F"} |->
       CASE c = "0" -> 0 [] c = "1" -> 1 [] c = "2" -> 2 [] c = "3" -> 3
         [] c = "4" -> 4 [] c = "5" -> 5 [] c = "6" -> 6 [] c = "7" -> 7
         [] c = "8" -> 8 [] c = "9" -> 9
         [] c \in {"a", "A"} -> 10 [] c \in {"b", "B"} -> 11
         [] c \in {"c", "C"} -> 12 [] c \in {"d", "D"} -> 13
         [] c \in {"e", "E"} -> 14 [] OTHER -> 15]

DecDigits == {"0", "1", "2", "3", "4", "5", "6", "7", "8", "9"}

HexDigits == DOMAIN HexVal

\* the number written by the digits of s in the given base
RECURSIVE NumVal(_, _)
NumVal(s, base) ==
    IF s = <<>> THEN 0
    ELSE NumVal(SubSeq(s, 1, Len(s) - 1), base) * base + HexVal[s[Len(s)]]

\* str::find of a character: the first index holding c, 0 when there is none
Find(s, c) ==
    IF \E i \in 1..Len(s) : s[i] = c
    THEN CHOOSE i \in 1..Len(s) : s[i] = c /\ \A j \in 1..(i - 1) : s[j] # c
    ELSE 0

\* a search that stops at the first occurrence
RFind_First(s, c) == Find(s, c)

\* str::rfind of a character: the last index holding c, 0 when there is none
RFind(s, c) ==
    IF \E i \in 1..Len(s) : s[i] = c
    THEN CHOOSE i \in 1..Len(s) : s[i] = c /\ \A j \in (i + 1)..Len(s) : s[j] # c
    ELSE 0

\* str::replace(c, ""): every occurrence of c removed
Remove(s, c) == SelectSeq(s, LAMBDA x : x # c)

\* the pieces of s between the occurrences of c
RECURSIVE Split(_, _)
Split(s, c) ==
    LET i == Find(s, c) IN
    IF i = 0 THEN <<s>>
    ELSE <<SubSeq(s, 1, i - 1)>> \o Split(DropN(s, i), c)

\* u16::from_str: an optional '+', then decimal digits, at most 65535
ParseU16(s) ==
    LET digits == IF s # <<>> /\ s[1] = "+" THEN Tail(s) ELSE s IN
    IF digits = <<>> \/ \E i \in 1..Len(digits) : digits[i] \notin DecDigits
    THEN Fail
    ELSE LET lead == Len(digits) - Min(Len(digits), 5)
             sig == DropN(digits, lead) IN
         IF (\E i \in 1..lead : digits[i] # "0") \/ NumVal(sig, 10) > 65535
         THEN Fail
         ELSE [ok |-> TRUE, val |-> NumVal(sig, 10)]

\* one part of a dotted quad: 1 to 3 decimal digits, no leading zero, at
\* most 255
IsOctetText(t) ==
    /\ Len(t) \in 1..3
    /\ \A i \in 1..Len(t) : t[i] \in DecDigits
    /\ Len(t) > 1 => t[1] # "0"
    /\ NumVal(t, 10) <= 255

\* Ipv4Addr::from_str
ParseIpv4(s) ==
    LET parts == Split(s, ".") IN
    IF Len(parts) = 4 /\ \A i \in 1..4 : IsOctetText(parts[i])
    THEN [ok |-> TRUE, val |-> [i \in 1..4 |-> NumVal(parts[i], 10)]]
    ELSE Fail

\* one group of an IPv6 address: 1 to 4 hexadecimal digits
IsGroupText(t) ==
    /\ Len(t) \in 1..4
    /\ \A i \in 1..Len(t) : t[i] \in HexDigits

\* the groups written by a colon-separated text; the last part may be a
\* dotted quad, which stands for two groups, when dotted is allowed
ColonGroups(s, dotted) ==
    IF s = <<>> THEN [ok |-> TRUE, val |-> <<>>]
    ELSE LET parts == Split(s, ":")
             n == Len(parts)
             q == ParseIpv4(parts[n]) IN
         IF \A i \in 1..n : IsGroupText(parts[i])
         THEN [ok |-> TRUE, val |-> [i \in 1..n |-> NumVal(parts[i], 16)]]
         ELSE IF dotted /\ q.ok /\ \A i \in 1..(n - 1) : IsGroupText(parts[i])
         THEN [ok |-> TRUE,
               val |-> [i \in 1..(n - 1) |-> NumVal(parts[i], 16)]
                       \o <<q.val[1] * 256 + q.val[2],
                            q.val[3] * 256 + q.val[4]>>]
         ELSE Fail

\* the first index at which "::" starts, 0 when there is none
FindGap(s) ==
    IF \E i \in 1..(Len(s) - 1) : s[i] = ":" /\ s[i + 1] = ":"
    THEN CHOOSE i \in 1..(Len(s) - 1) :
            /\ s[i] = ":" /\ s[i + 1] = ":"
            /\ \A j \in 1..(i - 1) : ~(s[j] = ":" /\ s[j + 1] = ":")
    ELSE 0

\* Ipv6Addr::from_str: eight groups, or fewer around one "::" that stands
\* for the missing groups (at least one); a dotted quad may end the address
ParseIpv6(s) ==
    LET g == FindGap(s) IN
    IF g = 0
    THEN LET all == ColonGroups(s, TRUE) IN
         IF all.ok /\ Len(all.val) = 8 THEN all ELSE Fail
    ELSE LET head == ColonGroups(SubSeq(s, 1, g - 1), FALSE)
             tail == ColonGroups(DropN(s, g + 1), TRUE) IN
         IF head.ok /\ tail.ok /\ Len(head.val) + Len(tail.val) <= 7
         THEN [ok |-> TRUE,
               val |-> head.val
                       \o Zeros(8 - Len(head.val) - Len(tail.val))
                       \o tail.val]
         ELSE Fail

\* impl TryFrom<String> for Address: rfind(":").unwrap() panics without a
\* colon; the name of a Domain is kept as text
AddressTryFromString(s) ==
    LET i == RFind(s, ":") IN
    IF i = 0 THEN [res |-> "panic"]
    ELSE LET host == Remove(Remove(SubSeq(s, 1, i - 1), "["), "]")
             port == ParseU16(DropN(s, i)) IN
         IF ~port.ok THEN [res |-> "err"]
         ELSE IF ParseIpv4(host).ok
         THEN [res |-> "ok", val |-> AddrV4(ParseIpv4(host).val, port.val)]
         ELSE IF ParseIpv6(host).ok
         THEN [res |-> "ok", val |-> AddrV6(ParseIpv6(host).val, port.val)]
         ELSE [res |-> "ok", val |-> AddrDomain(host, port.val)]

----------------------------------------------------------------------------
(* Message codecs *)

\* check_socks_ver
CheckSocksVer(b) ==
    LET v == ReadU8(b) IN
    IF v.ok /\ v.val = SOCKS_VERSION THEN [ok |-> TRUE, rest |-> v.rest] ELSE Fail

\* a check of the reserved octet that accepts every value
CheckRsv_Any(b) ==
    LET v == ReadU8(b) IN
    IF v.ok THEN [ok |-> TRUE, rest |-> v.rest] ELSE Fail

\* check_rsv
CheckRsv(b) ==
    LET v == ReadU8(b) IN
    IF v.ok /\ v.val = RSV_RESERVED THEN [ok |-> TRUE, rest |-> v.rest] ELSE Fail

\* a check of the authentication version that takes the SOCKS version too
CheckAuthVer_AsSocks(b) ==
    LET v == ReadU8(b) IN
    IF v.ok /\ v.val \in {AUTH_VERSION, SOCKS_VERSION}
    THEN [ok |-> TRUE, rest |-> v.rest] ELSE Fail

\* check_auth_ver
CheckAuthVer(b) ==
    LET v == ReadU8(b) IN
    IF v.ok /\ v.val = AUTH_VERSION THEN [ok |-> TRUE, rest |-> v.rest] ELSE Fail

\* HandshakeResponse::from
HandshakeResponseFrom(b) ==
    LET v == CheckSocksVer(b) IN
    IF ~v.ok THEN Fail
    ELSE LET m == ReadU8(v.rest) IN
         IF ~m.ok THEN Fail
         ELSE [ok |-> TRUE, method |-> AuthMethodFrom(m.val), rest |-> m.rest]

\* read_u8 for a length, then read_exact of that many octets, then
\* String::from_utf8_lossy
ReadLenString(b) ==
    LET n == ReadU8(b) IN
    IF ~n.ok \/ Len(n.rest) < n.val THEN Fail
    ELSE [ok |-> TRUE, val |-> Utf8Lossy(Take(n.rest, n.val)),
          rest |-> DropN(n.rest, n.val)]

\* UsernamePasswordAuth::from
UsernamePasswordAuthFrom(b) ==
    LET v == CheckAuthVer(b) IN
    IF ~v.ok THEN Fail
    ELSE LET u == ReadLenString(v.rest) IN
    IF ~u.ok THEN Fail
    ELSE LET w == ReadLenString(u.rest) IN
    IF ~w.ok THEN Fail
    ELSE [ok |-> TRUE, usr |-> u.val, pwd |-> w.val, rest |-> w.rest]

\* From<u8> for UsernamePasswordAuthResult
UsernamePasswordAuthResultFromU8(x) == IF x = 0 THEN "Succeeded" ELSE "Failure"

\* UsernamePasswordAuthResult::from
UsernamePasswordAuthResultFrom(b) ==
    LET v == CheckAuthVer(b) IN
    IF ~v.ok THEN Fail
    ELSE LET st == ReadU8(v.rest) IN
         IF ~st.ok THEN Fail
         ELSE [ok |-> TRUE, status |-> UsernamePasswordAuthResultFromU8(st.val),
               rest |-> st.rest]

\* HandshakeRequest::from
HandshakeRequestFrom(b) ==
    LET v == CheckSocksVer(b) IN
    IF ~v.ok THEN Fail
    ELSE LET n == ReadU8(v.rest) IN
         IF ~n.ok \/ Len(n.rest) < n.val THEN Fail
         ELSE [ok |-> TRUE,
               methods |-> [i \in 1..n.val |-> AuthMethodFrom(n.rest[i])],
               rest |-> DropN(n.rest, n.val)]

\* HandshakeRequest::as_bytes: the count is methods.len() as u8
HandshakeRequestAsBytes(methods) ==
    <<SOCKS_VERSION, Len(methods) % 256>>
    \o [i \in 1..Len(methods) |-> AuthMethodInto(methods[i])]

\* HandshakeResponse::as_bytes
HandshakeResponseAsBytes(method) == <<SOCKS_VERSION, AuthMethodInto(method)>>

\* TellRequest::from
TellRequestFrom(b, got) ==
    LET v == CheckSocksVer(b) IN
    IF ~v.ok THEN Fail
    ELSE LET c == ReadU8(v.rest) IN
    IF ~c.ok \/ ~CommandTryFrom(c.val).ok THEN Fail
    ELSE LET r == CheckRsv(c.rest) IN
    IF ~r.ok THEN Fail
    ELSE LET t == ReadU8(r.rest) IN
    IF ~t.ok \/ ~AddressTypeTryFrom(t.val).ok THEN Fail
    ELSE LET atyp == AddressTypeTryFrom(t.val).val
             a == AddressFromSocksBytes(t.rest, atyp, got)
         IN IF ~a.ok THEN Fail
            ELSE [ok |-> TRUE, cmd |-> CommandTryFrom(c.val).val, atyp |-> atyp,
                  addr |-> a.val, rest |-> a.rest]

\* TellRequest::as_bytes
TellRequestAsBytes(cmd, atyp, addr) ==
    <<SOCKS_VERSION, CommandInto(cmd), RSV_RESERVED, AddressTypeInto(atyp)>>
    \o AddressAsSocksBytes(addr)

\* ReplyResponse::from
ReplyResponseFrom(b, got) ==
    LET v == CheckSocksVer(b) IN
    IF ~v.ok THEN Fail
    ELSE LET c == ReadU8(v.rest) IN
    IF ~c.ok THEN Fail
    ELSE LET r == CheckRsv(c.rest) IN
    IF ~r.ok THEN Fail
    ELSE LET t == ReadU8(r.rest) IN
    IF ~t.ok \/ ~AddressTypeTryFrom(t.val).ok THEN Fail
    ELSE LET a == AddressFromSocksBytes(t.rest, AddressTypeTryFrom(t.val).val, got)
         IN IF ~a.ok THEN Fail
            ELSE [ok |-> TRUE, rep |-> ReplyFieldFromU8(c.val), addr |-> a.val,
                  rest |-> a.rest]

\* ReplyResponse::as_bytes
ReplyResponseAsBytes(r, addr) ==
    <<SOCKS_VERSION, ReplyFieldInto(r), RSV_RESERVED,
      AddressTypeInto(AddressTypeFromAddress(addr))>>
    \o AddressAsSocksBytes(addr)

\* UdpPacket::from on one received datagram d: "err" returns Err, "retry" goes
\* round the decoder's loop to the next recv_from, "panic" is the slice index
\* out of range, "ok" yields the packet
UdpPacketFrom(d) ==
    IF Len(d) <= 4 THEN [res |-> "err"]
    ELSE LET t == AddressTypeTryFrom(d[4]) IN
    IF ~t.ok THEN [res |-> "err"]
    ELSE LET a == AddressFromSocksBytes(DropN(d, 4), t.val, Len(d)) IN
    IF ~a.ok THEN [res |-> "retry"]
    ELSE IF 4 + AddressLen(a.val) > Len(d) THEN [res |-> "panic"]
    ELSE [res |-> "ok", frag |-> d[3], addr |-> a.val,
          data |-> DropN(d, 4 + AddressLen(a.val))]

\* a serialization that leaves the two reserved octets out
UdpPacketAsSocksBytes_NoRsv(frag, addr, data) ==
    <<frag, AddressTypeInto(AddressTypeFromAddress(addr))>>
    \o AddressAsSocksBytes(addr) \o data

\* UdpPacket::as_socks_bytes
UdpPacketAsSocksBytes(frag, addr, data) ==
    <<0, 0, frag, AddressTypeInto(AddressTypeFromAddress(addr))>>
    \o AddressAsSocksBytes(addr) \o data

----------------------------------------------------------------------------
(* What the environment can send *)

\* greetings: no-auth only, no-auth and user/pass, user/pass only, GSSAPI only,
\* one pipelined with a BIND request, a wrong version, a truncated one, none
Greetings ==
    {<<5, 1, 0>>, <<5, 2, 0, 2>>, <<5, 1, 2>>, <<5, 1, 1>>,
     <<5, 1, 0, 5, 2, 0, 1, 0, 0, 0, 0, 0, 0>>,
     <<4, 1, 0>>, <<5, 2, 0>>, <<>>}

V6Sample == <<32, 1, 13, 184, 0, 1, 0, 0, 2, 12, 41, 255, 254, 150, 139, 85>>

\* requests: CONNECT, BIND and UDP ASSOCIATE with IPv4, domain and IPv6
\* addresses, then a wrong version, a non-zero RSV, an unknown command, an
\* unknown address type, a truncated request and a closed stream
Requests ==
    {<<5, 1, 0, 1, 127, 0, 0, 1, 0, 80>>,
     <<5, 2, 0, 1, 0, 0, 0, 0, 0, 0>>,
     <<5, 3, 0, 1, 0, 0, 0, 0, 0, 0>>,
     <<5, 1, 0, 3, 2, 120, 121, 1, 187>>,
     <<5, 2, 0, 3, 2, 120, 121, 1, 187>>,
     <<5, 3, 0, 3, 2, 120, 121, 0, 53>>,
     <<5, 1, 0, 4>> \o V6Sample \o <<31, 144>>,
     <<4, 1, 0, 1, 127, 0, 0, 1, 0, 80>>,
     <<5, 1, 1, 1, 127, 0, 0, 1, 0, 80>>,
     <<5, 9, 0, 1, 127, 0, 0, 1, 0, 80>>,
     <<5, 1, 0, 2, 127, 0, 0, 1, 0, 80>>,
     <<5, 1, 0, 1, 127, 0>>,
     <<>>}

\* octets one read call for a domain name can deliver: one, or all of them
NameReads == {1, 255}

\* outcomes of a DNS lookup: an address, an error, an empty answer
DnsOutcomes == {"ok", "err", "empty"}

\* datagrams arriving on C: too short, unknown ATYP, truncated IPv4 address,
\* IPv4 with payload, IPv4 with FRAG = 1, domain with payload, domain whose
\* name is not UTF-8, IPv4 with a non-zero RSV
Datagrams ==
    {<<0, 0, 0>>,
     <<0, 0, 0, 9, 1, 2, 3, 4, 0, 53, 7>>,
     <<0, 0, 0, 1, 1, 2>>,
     <<0, 0, 0, 1, 1, 2, 3, 4, 0, 53, 7, 8>>,
     <<0, 0, 1, 1, 1, 2, 3, 4, 0, 53, 7, 8>>,
     <<0, 0, 0, 3, 1, 120, 0, 53, 7, 8>>,
     <<0, 0, 0, 3, 1, 255, 0, 53>>,
     <<1, 1, 0, 1, 1, 2, 3, 4, 0, 53, 7, 8>>}

\* source endpoints of datagrams arriving on C
Sources == {"client", "stranger"}

\* payloads arriving on O
OriginPayloads == {<<9>>}

\* local address of the client-facing UDP socket: the listener's IPv6 address
\* and an ephemeral port
CLocal == AddrV6(<<0, 0, 0, 0, 0, 0, 0, 1>>, 40000)

NoReq == [cmd |-> "none", atyp |-> "none", addr |-> AddressDefault]

NoAddr == [kind |-> "none", host |-> <<>>, port |-> 0]

None == [stage |-> "none", peer |-> "none", data |-> <<>>]

----------------------------------------------------------------------------
(* The session task *)

\* usr and pwd are generated at start-up and given to the proxy enabler
CredentialsConfigured == TRUE

\* the method the session puts into its HandshakeResponse
SelectMethod(methods) == "NoAuthenticationRequired"

\* TryInto<SocketAddr>: an IP address converts to itself; a domain goes through
\* the resolver, and a name holding a NUL octet cannot be looked up
Resolve(addr, dns) ==
    IF addr.kind # "Domain" THEN [res |-> "ok", val |-> addr]
    ELSE IF dns = "err" \/ \E i \in 1..Len(addr.host) : addr.host[i] = 0
         THEN [res |-> "err"]
    ELSE IF dns = "empty" THEN [res |-> "panic"]
    ELSE [res |-> "ok", val |-> AddrV4(<<93, 184, 216, 34>>, addr.port)]

\* dropping the TcpStream closes it; the stream is dropped without being closed
CloseOnDrop_Leak(n) == n

\* dropping the TcpStream closes the client connection
CloseOnDrop(n) == n + 1

\* a socket outlives the scope of its owner
Dropped_Keep(s) == s

\* a socket that exists is closed when its owner goes out of scope
Dropped(s) == IF s = "open" THEN "closed" ELSE s

\* the session is awaited inside the accept loop: its error ends the loop
ListenerAfter_Inline(l, why) == IF why = "none" THEN l ELSE "stopped"

\* main.rs 170, 191-199: the session runs in tasks made by tokio::spawn, whose
\* JoinHandle is dropped; the output of a task (Ok, Err or a panic, which the
\* runtime catches) reaches nobody, and the accept loop goes on
ListenerAfter(l, why) == l

\* the task that owns the client stream ends (return, error return or panic):
\* everything it owns is dropped
EndTask(why) ==
    /\ pc' = "Closed"
    /\ failure' = why
    /\ listener' = ListenerAfter(listener, why)
    /\ nFailed' = IF why = "none" THEN nFailed ELSE Sat(nFailed)
    /\ closes' = CloseOnDrop(closes)
    /\ outbound' = Dropped(outbound)
    /\ sockC' = Dropped(sockC)
    /\ sockO' = Dropped(sockO)
    /\ upHeld' = None
    /\ downHeld' = None

\* the state of a session at the moment its connection is accepted
FreshSession ==
    /\ inbuf = <<>>
    /\ out = <<>>
    /\ offered = <<>>
    /\ hrespN = 0
    /\ tellreq = NoReq
    /\ dest = NoAddr
    /\ failure = "none"
    /\ setupErr = "none"
    /\ rep = "Succeeded"
    /\ replies = 0
    /\ closes = 0
    /\ shutdowns = 0
    /\ outbound = "none"
    /\ c2o = "run"
    /\ o2c = "run"
    /\ nC2O = 0
    /\ nO2C = 0
    /\ lateCopy = FALSE
    /\ sockC = "none"
    /\ sockO = "none"
    /\ tState = "open"
    /\ incoming = "unset"
    /\ upHeld = None
    /\ downHeld = None
    /\ nUp = 0
    /\ nDown = 0
    /\ upDropped = 0
    /\ loopback = <<>>
    /\ sentDown = <<>>
    /\ sentUp = <<>>
    /\ nCtl = 0

\* main.rs 166-170: a connection was accepted and its session task spawned
NewSession == pc = "Handshake" /\ FreshSession

\* no connection was accepted yet
NoSession == pc = "Closed" /\ FreshSession

\* an enabler call and whether it returned Ok
Call(f, ok) == [fn |-> f, ok |-> ok]

\* main.rs 130-166: main has made its way to the accept loop: the lookups
\* are done, the enabler was closed and opened, the signal task waits
MainServing ==
    /\ mainPc = "Serving"
    /\ mainExit = "running"
    /\ sigPc = "waiting"
    /\ calls = <<Call("close", TRUE), Call("open", TRUE)>>
    /\ proxy = "on"
    /\ lan6 = "lan"
    /\ lan4 = "lan"
    /\ served = 0

\* no codec is under test while a session is followed
CodecIdle ==
    /\ test = "none"
    /\ input = <<>>
    /\ result = <<>>
    /\ done = FALSE

\* main.rs 151-166: the listener is bound and the first connection accepted
Init ==
    /\ NewSession
    /\ listener = "accepting"
    /\ nFailed = 0
    /\ CodecIdle
    /\ MainServing

codecVars == <<test, input, result, done>>
mainVars == <<mainPc, mainExit, sigPc, calls, proxy, lan6, lan4, served>>
sessionVars == <<pc, inbuf, out, offered, hrespN, tellreq, dest, failure,
                 setupErr, rep, replies, closes, shutdowns, outbound, c2o, o2c,
                 nC2O, nO2C, lateCopy, sockC, sockO, tState, incoming, upHeld,
                 downHeld, nUp, nDown, upDropped, loopback, sentDown,
                 sentUp, nCtl>>
relayVars == <<c2o, o2c, nC2O, nO2C, lateCopy>>
udpVars == <<tState, incoming, nUp, nDown, upDropped, loopback, sentDown,
            sentUp, nCtl>>
reqVars == <<tellreq, dest>>
setupVars == <<setupErr, rep>>

\* main.rs 171-180: read the greeting, write the HandshakeResponse with one
\* write call (w octets are taken; w = 0 stands for Err, which is only logged)
ReadHandshake ==
    /\ pc = "Handshake"
    /\ \E g \in Greetings :
         LET h == HandshakeRequestFrom(inbuf \o g) IN
         IF ~h.ok
         THEN /\ EndTask("handshake")
              /\ UNCHANGED <<inbuf, out, offered, hrespN>>
         ELSE \E w \in 0..2 :
              /\ offered' = h.methods
              /\ inbuf' = h.rest
              /\ out' = out \o Take(HandshakeResponseAsBytes(SelectMethod(h.methods)), w)
              /\ hrespN' = w
              /\ pc' = "Request"
              /\ UNCHANGED <<failure, closes, listener, nFailed, outbound, sockC, sockO, upHeld, downHeld>>
    /\ UNCHANGED <<reqVars, setupVars, replies, shutdowns, relayVars, udpVars>>
    /\ UNCHANGED <<codecVars, mainVars>>

\* the task a command is spawned into; the stream moves into it
CommandTask(cmd) ==
    CASE cmd = "Connect" -> "Connect"
      [] cmd = "UdpAssociate" -> "UdpSetup"
      [] OTHER -> "BindReply"

\* main.rs 182-208: read the request, resolve its address, dispatch on the
\* command
ReadRequest ==
    /\ pc = "Request"
    /\ \E q \in Requests, got \in NameReads, dns \in DnsOutcomes :
         LET t == TellRequestFrom(inbuf \o q, got) IN
         IF ~t.ok
         THEN /\ EndTask("request")
              /\ UNCHANGED <<inbuf, reqVars>>
         ELSE LET r == Resolve(t.addr, dns) IN
              /\ tellreq' = [cmd |-> t.cmd, atyp |-> t.atyp, addr |-> t.addr]
              /\ inbuf' = t.rest
              /\ IF r.res = "ok"
                 THEN /\ dest' = r.val
                      /\ pc' = CommandTask(t.cmd)
                      /\ UNCHANGED <<failure, closes, listener, nFailed, outbound, sockC, sockO,
                                     upHeld, downHeld>>
                 ELSE /\ dest' = dest
                      /\ EndTask(IF r.res = "err" THEN "resolve" ELSE "panic")
    /\ UNCHANGED <<out, offered, hrespN, setupVars, replies, shutdowns, relayVars,
                   udpVars>>
    /\ UNCHANGED <<codecVars, mainVars>>

\* how many octets of a reply reach the client before the write fails: none,
\* half of them, or all of them (the write succeeds)
WriteCuts(bytes) == {0, Len(bytes) \div 2, Len(bytes)}

\* a respond_with that writes the reply twice
RespondWith_Twice(bytes, w) ==
    /\ out' = out \o Take(bytes, w) \o Take(bytes, w)
    /\ replies' = IF w = Len(bytes) THEN replies + 2 ELSE replies

\* ReplyResponse::respond_with: tokio::io::copy writes the octets in order and
\* returns Ok only when all of them are written
RespondWith(bytes, w) ==
    /\ out' = out \o Take(bytes, w)
    /\ replies' = IF w = Len(bytes) THEN replies + 1 ELSE replies

\* the relay runs whatever the reply was
RelayAllowed_Always(r) == TRUE

\* main.rs 51 and 76: the relay runs only after a Succeeded reply
RelayAllowed(r) == r = "Succeeded"

\* main.rs 199-204: the BIND task writes CommandNotSupported
BindReply ==
    /\ pc = "BindReply"
    /\ LET bytes == ReplyResponseAsBytes("CommandNotSupported", AddressDefault) IN
       \E w \in WriteCuts(bytes) :
         /\ RespondWith(bytes, w)
         /\ rep' = "CommandNotSupported"
         /\ IF w < Len(bytes)
            THEN EndTask("reply")
            ELSE /\ pc' = "Shutdown"
                 /\ UNCHANGED <<failure, closes, listener, nFailed, outbound, sockC, sockO, upHeld,
                                downHeld>>
    /\ UNCHANGED <<inbuf, offered, hrespN, reqVars, setupErr, shutdowns, relayVars,
                   udpVars>>
    /\ UNCHANGED <<codecVars, mainVars>>

\* main.rs 47-48: the outbound connect and the reply field made of its result
Connect ==
    /\ pc = "Connect"
    /\ \E k \in {"none"} \cup ErrorKinds :
         /\ setupErr' = k
         /\ rep' = ReplyFieldFromResult(k)
         /\ outbound' = IF k = "none" THEN "open" ELSE "none"
    /\ pc' = "ConnectReply"
    /\ UNCHANGED <<inbuf, out, offered, hrespN, reqVars, failure, replies, closes, listener, nFailed,
                   shutdowns, relayVars, sockC, sockO, upHeld, downHeld, udpVars>>
    /\ UNCHANGED <<codecVars, mainVars>>

\* main.rs 49-56: write the reply, then relay or drop the connect result
ConnectReply ==
    /\ pc = "ConnectReply"
    /\ LET bytes == ReplyResponseAsBytes(rep, AddressDefault) IN
       \E w \in WriteCuts(bytes) :
         /\ RespondWith(bytes, w)
         /\ IF w < Len(bytes)
            THEN EndTask("reply")
            ELSE /\ pc' = IF RelayAllowed(rep) THEN "ConnectRelay" ELSE "Shutdown"
                 /\ outbound' = IF RelayAllowed(rep) THEN outbound ELSE Dropped(outbound)
                 /\ UNCHANGED <<failure, closes, listener, nFailed, sockC, sockO, upHeld, downHeld>>
    /\ UNCHANGED <<inbuf, offered, hrespN, reqVars, setupVars, shutdowns, relayVars,
                   udpVars>>
    /\ UNCHANGED <<codecVars, mainVars>>

\* copy_bidirectional returns as soon as one direction is done
CopyFinished_Either(a, b) == a = "done" \/ b = "done"

\* copy_bidirectional returns Ok once both directions are done
CopyFinished(a, b) == a = "done" /\ b = "done"

\* copy_bidirectional: octets read from the client are written to the outbound
\* stream
CopyC2O ==
    /\ pc = "ConnectRelay"
    /\ c2o = "run"
    /\ ~CopyFinished(c2o, o2c)
    /\ nC2O' = Sat(nC2O)
    /\ lateCopy' = (lateCopy \/ o2c = "done")
    /\ UNCHANGED <<pc, inbuf, out, offered, hrespN, reqVars, failure, setupVars,
                   replies, closes, listener, nFailed, shutdowns, outbound, c2o, o2c, nO2C, sockC,
                   sockO, upHeld, downHeld, udpVars>>
    /\ UNCHANGED <<codecVars, mainVars>>

\* copy_bidirectional: octets read from the outbound stream are written to the
\* client
CopyO2C ==
    /\ pc = "ConnectRelay"
    /\ o2c = "run"
    /\ ~CopyFinished(c2o, o2c)
    /\ nO2C' = Sat(nO2C)
    /\ lateCopy' = (lateCopy \/ c2o = "done")
    /\ UNCHANGED <<pc, inbuf, out, offered, hrespN, reqVars, failure, setupVars,
                   replies, closes, listener, nFailed, shutdowns, outbound, c2o, o2c, nC2O, sockC,
                   sockO, upHeld, downHeld, udpVars>>
    /\ UNCHANGED <<codecVars, mainVars>>

\* copy_bidirectional: the client reaches end-of-stream; the write side of the
\* outbound stream is shut down and this direction is done
ClientEof ==
    /\ pc = "ConnectRelay"
    /\ c2o = "run"
    /\ ~CopyFinished(c2o, o2c)
    /\ c2o' = "done"
    /\ UNCHANGED <<pc, inbuf, out, offered, hrespN, reqVars, failure, setupVars,
                   replies, closes, listener, nFailed, shutdowns, outbound, o2c, nC2O, nO2C, lateCopy,
                   sockC, sockO, upHeld, downHeld, udpVars>>
    /\ UNCHANGED <<codecVars, mainVars>>

\* copy_bidirectional: the outbound stream reaches end-of-stream; the write
\* side of the client stream is shut down and this direction is done
OutboundEof ==
    /\ pc = "ConnectRelay"
    /\ o2c = "run"
    /\ ~CopyFinished(c2o, o2c)
    /\ o2c' = "done"
    /\ shutdowns' = shutdowns + 1
    /\ UNCHANGED <<pc, inbuf, out, offered, hrespN, reqVars, failure, setupVars,
                   replies, closes, listener, nFailed, outbound, c2o, nC2O, nO2C, lateCopy, sockC,
                   sockO, upHeld, downHeld, udpVars>>
    /\ UNCHANGED <<codecVars, mainVars>>

\* main.rs 53: a read or write of the relay fails; the error leaves impl_connect
RelayError ==
    /\ pc = "ConnectRelay"
    /\ ~CopyFinished(c2o, o2c)
    /\ EndTask("relay")
    /\ UNCHANGED <<inbuf, out, offered, hrespN, reqVars, setupVars, replies,
                   shutdowns, relayVars, udpVars>>
    /\ UNCHANGED <<codecVars, mainVars>>

\* main.rs 52-54: the relay returns Ok and the outbound stream goes out of scope
RelayDone ==
    /\ pc = "ConnectRelay"
    /\ CopyFinished(c2o, o2c)
    /\ pc' = "Shutdown"
    /\ outbound' = Dropped(outbound)
    /\ UNCHANGED <<inbuf, out, offered, hrespN, reqVars, failure, setupVars,
                   replies, closes, listener, nFailed, shutdowns, relayVars, sockC, sockO, upHeld,
                   downHeld, udpVars>>
    /\ UNCHANGED <<codecVars, mainVars>>

\* main.rs 57, 124, 203: shut the client stream down; an error of the
\* shutdown is returned instead of the relay's
Shutdown ==
    /\ pc = "Shutdown"
    /\ shutdowns' = shutdowns + 1
    /\ \E ok \in BOOLEAN : failure' = IF ok THEN failure ELSE "shutdown"
    /\ pc' = "Return"
    /\ UNCHANGED <<inbuf, out, offered, hrespN, reqVars, setupVars, replies,
                   closes, listener, nFailed, outbound, sockC, sockO, upHeld,
                   downHeld, relayVars, udpVars>>
    /\ UNCHANGED <<codecVars, mainVars>>

\* main.rs 58-59, 124-126, 203-205: the function returns and what the task
\* owns (the client stream, the UDP sockets) goes out of scope
TaskReturns ==
    /\ pc = "Return"
    /\ EndTask(failure)
    /\ UNCHANGED <<inbuf, out, offered, hrespN, reqVars, setupVars, replies,
                   shutdowns, relayVars, udpVars>>
    /\ UNCHANGED <<codecVars, mainVars>>

----------------------------------------------------------------------------
(* UDP ASSOCIATE *)

\* main.rs 65-68: the local address of the client stream, the two sockets of
\* UdpPacket::new_exchange, the connect of O and the reply field of its result;
\* an error before the connect leaves impl_udp_associate at once
UdpSetup ==
    /\ pc = "UdpSetup"
    /\ \E f \in {"none", "local_addr", "bindC", "bindO"} :
         IF f = "none"
         THEN /\ \E k \in {"none"} \cup ErrorKinds :
                   /\ setupErr' = k
                   /\ rep' = ReplyFieldFromResult(k)
              /\ sockC' = "open"
              /\ sockO' = "open"
              /\ pc' = "UdpReply"
              /\ UNCHANGED <<failure, closes, listener, nFailed, outbound, upHeld, downHeld>>
         ELSE /\ pc' = "Closed"
              /\ failure' = "setup"
              /\ listener' = ListenerAfter(listener, "setup")
              /\ nFailed' = Sat(nFailed)
              /\ closes' = CloseOnDrop(closes)
              /\ sockC' = IF f = "bindO" THEN "closed" ELSE sockC
              /\ UNCHANGED <<setupVars, sockO, outbound, upHeld, downHeld>>
    /\ UNCHANGED <<inbuf, out, offered, hrespN, reqVars, replies, shutdowns,
                   relayVars, udpVars>>
    /\ UNCHANGED <<codecVars, mainVars>>

\* main.rs 70-76: the reply carries C's local address; the slot incoming_addr
\* starts as that address; each local_addr call can fail
UdpReply ==
    /\ pc = "UdpReply"
    /\ LET bytes == ReplyResponseAsBytes(rep, CLocal) IN
       \E f \in {"none", "local_addr", "local_addr_again"}, w \in WriteCuts(bytes) :
         IF f = "local_addr"
         THEN /\ EndTask("setup")
              /\ UNCHANGED <<out, replies, incoming>>
         ELSE /\ RespondWith(bytes, w)
              /\ IF w < Len(bytes)
                 THEN EndTask("reply") /\ UNCHANGED incoming
                 ELSE IF f = "local_addr_again"
                 THEN EndTask("setup") /\ UNCHANGED incoming
                 ELSE /\ incoming' = "C"
                      /\ pc' = IF RelayAllowed(rep) THEN "UdpRelay" ELSE "Shutdown"
                      /\ UNCHANGED <<failure, closes, listener, nFailed, outbound, sockC, sockO,
                                     upHeld, downHeld>>
    /\ UNCHANGED <<inbuf, offered, hrespN, reqVars, setupVars, shutdowns, relayVars,
                   tState, loopback, sentDown, sentUp, nCtl, nUp, nDown, upDropped>>
    /\ UNCHANGED <<codecVars, mainVars>>

\* a leg of the select returned Err: the loop breaks with it and every future
\* of the select is dropped
BreakLoop(why) ==
    /\ pc' = "Shutdown"
    /\ failure' = why
    /\ upHeld' = None
    /\ downHeld' = None

\* the datagrams recv_from on C can deliver: one sent by a client or a
\* stranger, or the one C sent to its own address
Arrivals ==
    [d : Datagrams, src : Sources, self : {FALSE}]
    \cup (IF loopback = <<>> THEN {}
          ELSE {[d |-> loopback, src |-> "C", self |-> TRUE]})

\* a leg whose future takes a datagram while it still holds one
LegIdle_Always(h) == TRUE

\* main.rs 79-87, 93-108: a leg is one future that receives, then sends, and
\* the loop makes the next one only after the select has returned
LegIdle(h) == h.stage = "none"

\* main.rs 80 (UdpPacket::from): recv_from on C delivers a datagram
UpRecv ==
    /\ pc = "UdpRelay"
    /\ LegIdle(upHeld)
    /\ \E a \in Arrivals :
         LET d == a.d
             src == a.src
             p == UdpPacketFrom(d) IN
         /\ loopback' = IF a.self THEN <<>> ELSE loopback
         /\ CASE p.res = "err" ->
                /\ BreakLoop("udp_decode")
                /\ UNCHANGED <<closes, listener, nFailed, outbound, sockC, sockO, upDropped>>
           [] p.res = "retry" ->
                /\ upDropped' = Sat(upDropped)
                /\ UNCHANGED <<pc, failure, closes, listener, nFailed, outbound, sockC, sockO, upHeld,
                               downHeld>>
           [] p.res = "panic" ->
                /\ EndTask("panic")
                /\ UNCHANGED upDropped
           [] OTHER ->
                /\ upHeld' = [stage |-> "recvd", peer |-> src, data |-> p.data]
                /\ UNCHANGED <<pc, failure, closes, listener, nFailed, outbound, sockC, sockO,
                               downHeld, upDropped>>
    /\ UNCHANGED <<inbuf, out, offered, hrespN, reqVars, setupVars, replies,
                   shutdowns, relayVars, tState, sentDown, sentUp, nCtl, incoming, nUp, nDown>>
    /\ UNCHANGED <<codecVars, mainVars>>

\* the slot keeps the first client endpoint it was given
Repin_FirstOnly(slot, src) == IF slot = "C" THEN src ELSE slot

\* main.rs 81: *incoming_addr.lock().await = from_addr
Repin(slot, src) == src

\* main.rs 81: the source of the datagram is stored into incoming_addr
UpLock ==
    /\ pc = "UdpRelay"
    /\ upHeld.stage = "recvd"
    /\ incoming' = Repin(incoming, upHeld.peer)
    /\ upHeld' = [upHeld EXCEPT !.stage = "locked"]
    /\ UNCHANGED <<pc, inbuf, out, offered, hrespN, reqVars, failure, setupVars,
                   replies, closes, listener, nFailed, shutdowns, outbound, relayVars, sockC, sockO,
                   tState, loopback, sentDown, sentUp, nCtl, downHeld, nUp, nDown, upDropped>>
    /\ UNCHANGED <<codecVars, mainVars>>

\* main.rs 83-91: the payload is sent on O; the leg completes, which drops the
\* other futures of the select
UpSend ==
    /\ pc = "UdpRelay"
    /\ upHeld.stage = "locked"
    /\ \E ok \in BOOLEAN :
         IF ok
         THEN /\ nUp' = Sat(nUp)
              /\ sentUp' = upHeld.data
              /\ upHeld' = None
              /\ downHeld' = None
              /\ UNCHANGED <<pc, failure>>
         ELSE BreakLoop("relay") /\ UNCHANGED <<nUp, sentUp>>
    /\ UNCHANGED <<inbuf, out, offered, hrespN, reqVars, setupVars, replies, closes, listener, nFailed,
                   shutdowns, outbound, relayVars, sockC, sockO, tState, loopback, sentDown, nCtl, incoming,
                   nDown, upDropped>>
    /\ UNCHANGED <<codecVars, mainVars>>

\* main.rs 94-96: recv on O delivers a payload or fails
DownRecv ==
    /\ pc = "UdpRelay"
    /\ LegIdle(downHeld)
    /\ \/ \E data \in OriginPayloads :
            /\ downHeld' = [stage |-> "recvd", peer |-> "none", data |-> data]
            /\ UNCHANGED <<pc, failure, upHeld>>
       \/ BreakLoop("relay")
    /\ UNCHANGED <<inbuf, out, offered, hrespN, reqVars, setupVars, replies, closes, listener, nFailed,
                   shutdowns, outbound, relayVars, sockC, sockO, tState, loopback, sentDown, sentUp, nCtl, incoming,
                   nUp, nDown, upDropped>>
    /\ UNCHANGED <<codecVars, mainVars>>

\* main.rs 100: the destination is read from incoming_addr
DownLock ==
    /\ pc = "UdpRelay"
    /\ downHeld.stage = "recvd"
    /\ downHeld' = [downHeld EXCEPT !.stage = "locked", !.peer = incoming]
    /\ UNCHANGED <<pc, inbuf, out, offered, hrespN, reqVars, failure, setupVars,
                   replies, closes, listener, nFailed, shutdowns, outbound, relayVars, sockC, sockO,
                   tState, loopback, sentDown, sentUp, nCtl, incoming, upHeld, nUp, nDown, upDropped>>
    /\ UNCHANGED <<codecVars, mainVars>>

\* main.rs 102-113: the encapsulated payload is sent on C; the leg completes,
\* which drops the other futures of the select
DownSend ==
    /\ pc = "UdpRelay"
    /\ downHeld.stage = "locked"
    /\ \E ok \in BOOLEAN :
         IF ok
         THEN LET bytes == UdpPacketAsSocksBytes(0, dest, downHeld.data) IN
              /\ nDown' = Sat(nDown)
              /\ sentDown' = bytes
              /\ loopback' = IF downHeld.peer = "C" THEN bytes ELSE loopback
              /\ upHeld' = None
              /\ downHeld' = None
              /\ UNCHANGED <<pc, failure>>
         ELSE BreakLoop("relay") /\ UNCHANGED <<nDown, sentDown, loopback>>
    /\ UNCHANGED <<inbuf, out, offered, hrespN, reqVars, setupVars, replies, closes, listener, nFailed,
                   shutdowns, outbound, relayVars, sockC, sockO, tState, incoming,
                   nUp, upDropped, sentUp, nCtl>>
    /\ UNCHANGED <<codecVars, mainVars>>

\* the client ends the controlling TCP stream: a FIN or a reset
ControlEnds ==
    /\ pc = "UdpRelay"
    /\ tState = "open"
    /\ \E t \in {"eof", "err"} : tState' = t
    /\ UNCHANGED <<pc, inbuf, out, offered, hrespN, reqVars, failure, setupVars,
                   replies, closes, listener, nFailed, shutdowns, outbound, relayVars, sockC, sockO,
                   incoming, upHeld, downHeld, nUp, nDown, upDropped, loopback,
                   sentDown, sentUp, nCtl>>
    /\ UNCHANGED <<codecVars, mainVars>>

\* the client sends a data octet on the controlling TCP stream during the relay
ControlData ==
    /\ pc = "UdpRelay"
    /\ tState = "open"
    /\ nCtl + Len(inbuf) < MaxPending
    /\ inbuf' = inbuf \o <<SOCKS_VERSION>>
    /\ UNCHANGED <<pc, out, offered, hrespN, reqVars, failure, setupVars,
                   replies, closes, listener, nFailed, shutdowns, outbound, relayVars, sockC, sockO,
                   tState, incoming, upHeld, downHeld, nUp, nDown, upDropped, loopback,
                   sentDown, sentUp, nCtl>>
    /\ UNCHANGED <<codecVars, mainVars>>

\* a wait_closed loop that also breaks on a read of data
ReadBreaks_Any(n) == TRUE

\* wait_closed 68-69: `Ok(0) => break Ok(())`, `Ok(_) => {}`
ReadBreaks(n) == n = 0

\* wait_closed 67-69 under main.rs 114-116: a read into the one-octet buffer
\* takes a data octet off the stream; the buffer is a temporary, so the octet
\* is gone, and the loop reads again
WaitClosedReads ==
    /\ pc = "UdpRelay"
    /\ tState # "err"
    /\ inbuf # <<>>
    /\ inbuf' = Tail(inbuf)
    /\ nCtl' = Sat(nCtl)
    /\ IF ReadBreaks(1)
       THEN /\ pc' = "Shutdown"
            /\ upHeld' = None
            /\ downHeld' = None
       ELSE UNCHANGED <<pc, upHeld, downHeld>>
    /\ UNCHANGED <<out, offered, hrespN, reqVars, failure, setupVars,
                   replies, closes, listener, nFailed, shutdowns, outbound, relayVars, sockC, sockO,
                   tState, incoming, nUp, nDown, upDropped, loopback,
                   sentDown, sentUp>>
    /\ UNCHANGED <<codecVars, mainVars>>

\* wait_closed that returns on a read error only
WaitClosedReturns_ErrOnly(t) == t = "err"

\* wait_closed: returns on a read of no octets and on a read error
WaitClosedReturns(t) == t \in {"eof", "err"}

\* main.rs 114-116: the control leg completes and the loop breaks with Ok
ControlLeg ==
    /\ pc = "UdpRelay"
    /\ WaitClosedReturns(tState)
    /\ tState = "eof" => (inbuf = <<>> /\ ReadBreaks(0))
    /\ pc' = "Shutdown"
    /\ upHeld' = None
    /\ downHeld' = None
    /\ UNCHANGED <<inbuf, out, offered, hrespN, reqVars, failure, setupVars,
                   replies, closes, listener, nFailed, shutdowns, outbound, relayVars, sockC, sockO,
                   tState, loopback, sentDown, sentUp, nCtl, incoming, nUp, nDown, upDropped>>
    /\ UNCHANGED <<codecVars, mainVars>>

----------------------------------------------------------------------------
(* The accept loop *)

\* main.rs 166-170: accept returns the next connection and a session task is
\* spawned for it. Sessions share no state, so one session is followed at a
\* time: the connection accepted after the followed session has ended is the
\* one followed next.
Accept ==
    /\ listener = "accepting"
    /\ pc = "Closed"
    /\ pc' = "Handshake"
    /\ inbuf' = <<>>
    /\ out' = <<>>
    /\ offered' = <<>>
    /\ hrespN' = 0
    /\ tellreq' = NoReq
    /\ dest' = NoAddr
    /\ failure' = "none"
    /\ setupErr' = "none"
    /\ rep' = "Succeeded"
    /\ replies' = 0
    /\ closes' = 0
    /\ shutdowns' = 0
    /\ outbound' = "none"
    /\ c2o' = "run"
    /\ o2c' = "run"
    /\ nC2O' = 0
    /\ nO2C' = 0
    /\ lateCopy' = FALSE
    /\ sockC' = "none"
    /\ sockO' = "none"
    /\ tState' = "open"
    /\ incoming' = "unset"
    /\ upHeld' = None
    /\ downHeld' = None
    /\ nUp' = 0
    /\ nDown' = 0
    /\ upDropped' = 0
    /\ loopback' = <<>>
    /\ sentDown' = <<>>
    /\ sentUp' = <<>>
    /\ nCtl' = 0
    /\ UNCHANGED <<listener, nFailed, codecVars, mainVars>>

\* main.rs 166: accept returns Err, `while let Ok` ends and main returns. The
\* sessions still running when main returns are not followed.
AcceptFails ==
    /\ listener = "accepting"
    /\ pc = "Closed"
    /\ listener' = "stopped"
    /\ mainPc' = "Done"
    /\ mainExit' = "ok"
    /\ UNCHANGED <<sessionVars, nFailed, codecVars, sigPc, calls, proxy, lan6,
                   lan4, served>>

----------------------------------------------------------------------------
(* Specifications *)

Next ==
    \/ ReadHandshake
    \/ ReadRequest
    \/ BindReply
    \/ Connect
    \/ ConnectReply
    \/ CopyC2O
    \/ CopyO2C
    \/ ClientEof
    \/ OutboundEof
    \/ RelayError
    \/ RelayDone
    \/ Shutdown
    \/ TaskReturns
    \/ UdpSetup
    \/ UdpReply
    \/ UpRecv
    \/ UpLock
    \/ UpSend
    \/ DownRecv
    \/ DownLock
    \/ DownSend
    \/ ControlEnds
    \/ ControlData
    \/ WaitClosedReads
    \/ ControlLeg
    \/ Accept
    \/ AcceptFails

Spec == Init /\ [][Next]_vars

\* tokio polls the branches of the select in random order, so a control leg
\* that is ready is eventually the one that completes; a task that can run is
\* eventually run; a read of the control leg that can take an octet eventually
\* takes it
FairSpec ==
    /\ Spec
    /\ WF_vars(WaitClosedReads)
    /\ WF_vars(ControlLeg)
    /\ WF_vars(Shutdown)
    /\ WF_vars(TaskReturns)

----------------------------------------------------------------------------
(* The codec on its own: a value is drawn, then the codec is applied to it *)

CodePointTypes == {"AuthMethod", "Command", "AddressType", "ReplyField"}

\* the variants of each code-point enumeration
Variants(ty) ==
    CASE ty = "AuthMethod" ->
            {"NoAuthenticationRequired", "GSSApi", "UsernameOrPassword",
             "IANAAssigned", "ReservedForPrivateMethods", "NoAcceptableMethods"}
      [] ty = "Command" -> {"Connect", "Bind", "UdpAssociate"}
      [] ty = "AddressType" -> {"IPV4", "FQDN", "IPV6"}
      [] OTHER ->
            {"Succeeded", "GeneralSocksServerFailure",
             "ConnectionNotAllowedByRuleSet", "NetworkUnreachable",
             "HostUnreachable", "ConnectionRefused", "TTLExpired",
             "CommandNotSupported", "AddressTypeNotSupported", "Unassigned"}

\* From<u8> / TryFrom<u8> of the enumeration ty
Decode(ty, x) ==
    CASE ty = "AuthMethod" -> [ok |-> TRUE, val |-> AuthMethodFrom(x)]
      [] ty = "Command" -> CommandTryFrom(x)
      [] ty = "AddressType" -> AddressTypeTryFrom(x)
      [] OTHER -> [ok |-> TRUE, val |-> ReplyFieldFromU8(x)]

\* Into<u8> of the enumeration ty
Encode(ty, v) ==
    CASE ty = "AuthMethod" -> AuthMethodInto(v)
      [] ty = "Command" -> CommandInto(v)
      [] ty = "AddressType" -> AddressTypeInto(v)
      [] OTHER -> ReplyFieldInto(v)

\* the longest domain name: 255 octets
LongName == [i \in 1..255 |-> 97]

\* addresses: IPv4, the unspecified IPv4 address, IPv6, and domains whose
\* names take 1, 2, 3 (with a two-octet character) and 255 octets
Addresses ==
    {AddrV4(<<127, 0, 0, 1>>, 80),
     AddressDefault,
     AddrV6(<<8193, 3512, 1, 0, 524, 10751, 65174, 35669>>, 8080),
     AddrDomain(<<120>>, 65535),
     AddrDomain(<<120, 121>>, 443),
     AddrDomain(<<195, 169, 46>>, 53),
     AddrDomain(LongName, 443)}

\* payloads of a datagram: none, one octet, some octets
Payloads == {<<>>, <<7>>, <<219, 221, 1, 32>>}

\* what is left of a stream holding an FQDN address, and what one read of the
\* name delivers: the whole address, the address cut inside the name, and the
\* address with one octet of the name missing; then an IPv4 address
AddressReads ==
    {[bytes |-> <<2, 120, 121, 1, 187>>, atyp |-> "FQDN", got |-> 255],
     [bytes |-> <<2, 120, 121, 1, 187>>, atyp |-> "FQDN", got |-> 1],
     [bytes |-> <<2, 120>>, atyp |-> "FQDN", got |-> 255],
     [bytes |-> <<3, 120, 121, 1, 187>>, atyp |-> "FQDN", got |-> 255],
     [bytes |-> <<127, 0, 0, 1, 0, 80>>, atyp |-> "IPV4", got |-> 255]}

\* "host:port" texts with the address each one writes: a host name, IPv4
\* addresses, bracketed IPv6 addresses (full, with "::" in front, inside and
\* alone, with a dotted quad), host names close to an IPv4 address
HostPorts ==
    {[text |-> <<"g", "i", "t", "h", "u", "b", ".", "c", "o", "m", ":",
                 "4", "4", "3">>,
      addr |-> AddrDomain(<<"g", "i", "t", "h", "u", "b", ".", "c", "o", "m">>,
                          443)],
     [text |-> <<"1", "2", "7", ".", "0", ".", "0", ".", "1", ":", "8", "0">>,
      addr |-> AddrV4(<<127, 0, 0, 1>>, 80)],
     [text |-> <<"0", ".", "0", ".", "0", ".", "0", ":", "0">>,
      addr |-> AddrV4(<<0, 0, 0, 0>>, 0)],
     [text |-> <<"2", "5", "5", ".", "2", "5", "5", ".", "2", "5", "5", ".",
                 "2", "5", "5", ":", "6", "5", "5", "3", "5">>,
      addr |-> AddrV4(<<255, 255, 255, 255>>, 65535)],
     [text |-> <<"[", ":", ":", "1", "]", ":", "4", "4", "3", "3">>,
      addr |-> AddrV6(<<0, 0, 0, 0, 0, 0, 0, 1>>, 4433)],
     [text |-> <<"[", ":", ":", "]", ":", "5", "3">>,
      addr |-> AddrV6(<<0, 0, 0, 0, 0, 0, 0, 0>>, 53)],
     [text |-> <<"[", "2", "0", "0", "1", ":", "d", "b", "8", ":", ":",
                 "F", "f", ":", "1", "]", ":", "8", "0", "8", "0">>,
      addr |-> AddrV6(<<8193, 3512, 0, 0, 0, 0, 255, 1>>, 8080)],
     [text |-> <<"[", "1", ":", "2", ":", "3", ":", "4", ":", "5", ":", "6",
                 ":", "7", ":", "8", "]", ":", "9">>,
      addr |-> AddrV6(<<1, 2, 3, 4, 5, 6, 7, 8>>, 9)],
     [text |-> <<"[", ":", ":", "f", "f", "f", "f", ":", "1", ".", "2", ".",
                 "3", ".", "4", "]", ":", "8", "0">>,
      addr |-> AddrV6(<<0, 0, 0, 0, 0, 65535, 258, 772>>, 80)],
     [text |-> <<"x", ":", "1">>,
      addr |-> AddrDomain(<<"x">>, 1)],
     [text |-> <<"1", ".", "2", ".", "3", ".", "c", "o", ":", "8", "0">>,
      addr |-> AddrDomain(<<"1", ".", "2", ".", "3", ".", "c", "o">>, 80)],
     [text |-> <<"f", "e", "e", "d", ":", "2", "2">>,
      addr |-> AddrDomain(<<"f", "e", "e", "d">>, 22)]}

\* texts that write no address: no colon, nothing at all, a port that is a
\* word, no port, a port above 65535
BadTexts ==
    {<<"l", "o", "c", "a", "l", "h", "o", "s", "t">>,
     <<>>,
     <<"x", ":", "h", "t", "t", "p">>,
     <<"x", ":">>,
     <<"x", ":", "6", "5", "5", "3", "6">>}

\* greetings whose NMETHODS is 0: alone, and followed by octets that belong
\* to the next message
NoMethodGreetings == {<<5, 0>>, <<5, 0, 5, 1, 0>>}

\* method lists handed to HandshakeRequest::new: one method, two, three in
\* an order that is not the order of their octets, 255 and 256 methods
MethodLists ==
    {<<"NoAuthenticationRequired">>,
     <<"UsernameOrPassword", "NoAuthenticationRequired">>,
     <<"UsernameOrPassword", "GSSApi", "NoAuthenticationRequired">>,
     [i \in 1..255 |-> "NoAuthenticationRequired"],
     [i \in 1..256 |-> "NoAuthenticationRequired"]}

\* the message decoders of the crate
Decoders ==
    {"HandshakeRequest", "HandshakeResponse", "TellRequest", "ReplyResponse",
     "UsernamePasswordAuth", "UsernamePasswordAuthResult"}

\* the decoders of the messages that hold an RSV octet
RsvDecoders == {"TellRequest", "ReplyResponse"}

\* what follows the first octet of a well-formed message: one method; the
\* method; CONNECT 127.0.0.1:80; Succeeded 0.0.0.0:0; "u" and "p"; status 0
AfterVersion(decoder) ==
    CASE decoder = "HandshakeRequest" -> <<1, 0>>
      [] decoder = "HandshakeResponse" -> <<0>>
      [] decoder = "TellRequest" -> <<1, 0, 1, 127, 0, 0, 1, 0, 80>>
      [] decoder = "ReplyResponse" -> <<0, 0, 1, 0, 0, 0, 0, 0, 0>>
      [] decoder = "UsernamePasswordAuth" -> <<1, 117, 1, 112>>
      [] OTHER -> <<0>>

\* a request or a reply for 127.0.0.1:80 whose RSV octet is rsv
WithRsv(decoder, rsv) ==
    <<SOCKS_VERSION, IF decoder = "TellRequest" THEN 1 ELSE 0, rsv,
      1, 127, 0, 0, 1, 0, 80>>

\* the from function of a message type, on a reader that holds all of b
DecodeMessage(decoder, b) ==
    CASE decoder = "HandshakeRequest" -> HandshakeRequestFrom(b)
      [] decoder = "HandshakeResponse" -> HandshakeResponseFrom(b)
      [] decoder = "TellRequest" -> TellRequestFrom(b, Len(b))
      [] decoder = "ReplyResponse" -> ReplyResponseFrom(b, Len(b))
      [] decoder = "UsernamePasswordAuth" -> UsernamePasswordAuthFrom(b)
      [] OTHER -> UsernamePasswordAuthResultFrom(b)

CodecInit ==
    /\ NewSession
    /\ listener = "accepting"
    /\ nFailed = 0
    /\ result = <<>>
    /\ done = FALSE
    /\ MainServing
    /\ \/ test \in CodePointTypes /\ input \in 0..255
       \/ /\ test = "Variant"
          /\ \E ty \in CodePointTypes :
                input \in [type : {ty}, v : Variants(ty)]
       \/ /\ test = "TellRequest"
          /\ \E a \in Addresses :
                input \in [cmd : Variants("Command"),
                           atyp : {AddressTypeFromAddress(a)}, addr : {a}]
       \/ /\ test = "ReplyResponse"
          /\ input \in [rep : Variants("ReplyField"), addr : Addresses]
       \/ /\ test = "UdpPacket"
          /\ input \in [frag : {0, 1}, addr : Addresses, data : Payloads]
       \/ test = "AddressLen" /\ input \in Addresses
       \/ test = "AddressRead" /\ input \in AddressReads
       \/ test = "Version" /\ input \in [decoder : Decoders, ver : 0..255]
       \/ test = "Rsv" /\ input \in [decoder : RsvDecoders, rsv : 0..255]
       \/ test = "Datagram" /\ input \in Datagrams
       \/ test = "HostPort" /\ input \in HostPorts
       \/ test = "BadText" /\ input \in [text : BadTexts]
       \/ test = "Greeting" /\ input \in Greetings \cup NoMethodGreetings
       \/ test = "Methods" /\ input \in MethodLists
       \/ test = "Resolve" /\ input \in [addr : Addresses, dns : DnsOutcomes]

\* an octet is decoded and the variant encoded again
CodePointFromOctet ==
    /\ test \in CodePointTypes
    /\ ~done
    /\ LET d == Decode(test, input) IN
       result' = IF d.ok
                 THEN [ok |-> TRUE, val |-> d.val, bytes |-> <<Encode(test, d.val)>>]
                 ELSE Fail
    /\ done' = TRUE
    /\ UNCHANGED <<sessionVars, listener, nFailed, mainVars, test, input>>

\* a variant is encoded and the octet decoded again
CodePointFromVariant ==
    /\ test = "Variant"
    /\ ~done
    /\ result' = Decode(input.type, Encode(input.type, input.v))
    /\ done' = TRUE
    /\ UNCHANGED <<sessionVars, listener, nFailed, mainVars, test, input>>

\* tellreq.rs test_from: a request is serialized and read back from a reader
\* that holds all its octets
TellRequestRoundTrip ==
    /\ test = "TellRequest"
    /\ ~done
    /\ LET bytes == TellRequestAsBytes(input.cmd, input.atyp, input.addr) IN
       result' = TellRequestFrom(bytes, Len(bytes))
    /\ done' = TRUE
    /\ UNCHANGED <<sessionVars, listener, nFailed, mainVars, test, input>>

\* rep_resp.rs test_from: a reply is serialized and read back from a reader
\* that holds all its octets
ReplyResponseRoundTrip ==
    /\ test = "ReplyResponse"
    /\ ~done
    /\ LET bytes == ReplyResponseAsBytes(input.rep, input.addr) IN
       result' = ReplyResponseFrom(bytes, Len(bytes))
    /\ done' = TRUE
    /\ UNCHANGED <<sessionVars, listener, nFailed, mainVars, test, input>>

\* a datagram is serialized and decoded as UdpPacket::from decodes a received
\* one
UdpPacketRoundTrip ==
    /\ test = "UdpPacket"
    /\ ~done
    /\ result' = UdpPacketFrom(UdpPacketAsSocksBytes(input.frag, input.addr,
                                                     input.data))
    /\ done' = TRUE
    /\ UNCHANGED <<sessionVars, listener, nFailed, mainVars, test, input>>

\* addr.rs test_len, test_as_socks_bytes: the length and the octets of an
\* address
AddressMeasure ==
    /\ test = "AddressLen"
    /\ ~done
    /\ result' = [len |-> AddressLen(input), bytes |-> AddressAsSocksBytes(input)]
    /\ done' = TRUE
    /\ UNCHANGED <<sessionVars, listener, nFailed, mainVars, test, input>>

\* an address is read from a stream
AddressRead ==
    /\ test = "AddressRead"
    /\ ~done
    /\ result' = AddressFromSocksBytes(input.bytes, input.atyp, input.got)
    /\ done' = TRUE
    /\ UNCHANGED <<sessionVars, listener, nFailed, mainVars, test, input>>

\* a message whose first octet is drawn is decoded
VersionDecode ==
    /\ test = "Version"
    /\ ~done
    /\ result' = DecodeMessage(input.decoder,
                                <<input.ver>> \o AfterVersion(input.decoder))
    /\ done' = TRUE
    /\ UNCHANGED <<sessionVars, listener, nFailed, mainVars, test, input>>

\* a request or a reply whose RSV octet is drawn is decoded
RsvDecode ==
    /\ test = "Rsv"
    /\ ~done
    /\ result' = DecodeMessage(input.decoder, WithRsv(input.decoder, input.rsv))
    /\ done' = TRUE
    /\ UNCHANGED <<sessionVars, listener, nFailed, mainVars, test, input>>

\* a datagram received on C is decoded
DatagramDecode ==
    /\ test = "Datagram"
    /\ ~done
    /\ result' = UdpPacketFrom(input)
    /\ done' = TRUE
    /\ UNCHANGED <<sessionVars, listener, nFailed, mainVars, test, input>>

\* addr.rs test_try_from: a "host:port" text is converted to an Address
HostPortParse ==
    /\ test \in {"HostPort", "BadText"}
    /\ ~done
    /\ result' = AddressTryFromString(input.text)
    /\ done' = TRUE
    /\ UNCHANGED <<sessionVars, listener, nFailed, mainVars, test, input>>

\* addr.rs 89-96, main.rs 184: an Address is converted to a SocketAddr
AddressTryIntoSocketAddr ==
    /\ test = "Resolve"
    /\ ~done
    /\ result' = Resolve(input.addr, input.dns)
    /\ done' = TRUE
    /\ UNCHANGED <<sessionVars, listener, nFailed, mainVars, test, input>>

\* a greeting is decoded from a reader that holds all its octets
HandshakeRequestDecode ==
    /\ test = "Greeting"
    /\ ~done
    /\ result' = HandshakeRequestFrom(input)
    /\ done' = TRUE
    /\ UNCHANGED <<sessionVars, listener, nFailed, mainVars, test, input>>

\* a HandshakeRequest made of a method list is serialized
HandshakeRequestEncode ==
    /\ test = "Methods"
    /\ ~done
    /\ result' = [bytes |-> HandshakeRequestAsBytes(input)]
    /\ done' = TRUE
    /\ UNCHANGED <<sessionVars, listener, nFailed, mainVars, test, input>>

CodecNext ==
    \/ HandshakeRequestDecode
    \/ HandshakeRequestEncode
    \/ AddressTryIntoSocketAddr
    \/ HostPortParse
    \/ VersionDecode
    \/ RsvDecode
    \/ DatagramDecode
    \/ CodePointFromOctet
    \/ CodePointFromVariant
    \/ TellRequestRoundTrip
    \/ ReplyResponseRoundTrip
    \/ UdpPacketRoundTrip
    \/ AddressMeasure
    \/ AddressRead

CodecSpec == CodecInit /\ [][CodecNext]_vars

----------------------------------------------------------------------------
(* The process: main from its start to the accept loop, and the signal task *)

\* main returns Ok or Err, or panics: the process ends
MainEnds(how) ==
    /\ mainPc' = "Done"
    /\ mainExit' = how

\* main.rs 135: the external IPv6 address is asked of the STUN server; an
\* error is returned by `?`
ExtIpV6 ==
    /\ mainExit = "running"
    /\ mainPc = "ExtIpV6"
    /\ \E ok \in BOOLEAN :
         IF ok THEN mainPc' = "ExtIpV4" /\ UNCHANGED mainExit
         ELSE MainEnds("err")
    /\ UNCHANGED <<sessionVars, listener, nFailed, codecVars, sigPc, calls,
                   proxy, lan6, lan4, served>>

\* main.rs 137: the external IPv4 address, likewise
ExtIpV4 ==
    /\ mainExit = "running"
    /\ mainPc = "ExtIpV4"
    /\ \E ok \in BOOLEAN :
         IF ok THEN mainPc' = "LanIpV6" /\ UNCHANGED mainExit
         ELSE MainEnds("err")
    /\ UNCHANGED <<sessionVars, listener, nFailed, codecVars, sigPc, calls,
                   proxy, lan6, lan4, served>>

\* main.rs 140-141: the LAN IPv6 address, or the loopback address when the
\* lookup fails
LanIpV6 ==
    /\ mainExit = "running"
    /\ mainPc = "LanIpV6"
    /\ \E ok \in BOOLEAN : lan6' = IF ok THEN "lan" ELSE "loopback"
    /\ mainPc' = "LanIpV4"
    /\ UNCHANGED <<sessionVars, listener, nFailed, codecVars, mainExit, sigPc,
                   calls, proxy, lan4, served>>

\* main.rs 143-144: the LAN IPv4 address, likewise
LanIpV4 ==
    /\ mainExit = "running"
    /\ mainPc = "LanIpV4"
    /\ \E ok \in BOOLEAN : lan4' = IF ok THEN "lan" ELSE "loopback"
    /\ mainPc' = "CloseAtStart"
    /\ UNCHANGED <<sessionVars, listener, nFailed, codecVars, mainExit, sigPc,
                   calls, proxy, lan6, served>>

\* main.rs 147, cmd.rs 82-97: close_socks5_proxy()?; the command can fail to
\* run (Err) or end with a failure status (the assert panics)
CloseAtStart ==
    /\ mainExit = "running"
    /\ mainPc = "CloseAtStart"
    /\ \E how \in {"ok", "err", "panic"} :
         /\ calls' = Append(calls, Call("close", how = "ok"))
         /\ IF how = "ok"
            THEN mainPc' = "Bind" /\ proxy' = "off" /\ UNCHANGED mainExit
            ELSE MainEnds(how) /\ UNCHANGED proxy
    /\ UNCHANGED <<sessionVars, listener, nFailed, codecVars, sigPc, lan6,
                   lan4, served>>

\* main.rs 149-152: the listener is bound to the LAN IPv6 address, port 0,
\* and its address is read; each can fail
Bind ==
    /\ mainExit = "running"
    /\ mainPc = "Bind"
    /\ \E f \in {"none", "bind", "local_addr"} :
         IF f = "none"
         THEN mainPc' = "Open" /\ listener' = "bound" /\ UNCHANGED mainExit
         ELSE MainEnds("err") /\ UNCHANGED listener
    /\ UNCHANGED <<sessionVars, nFailed, codecVars, sigPc, calls, proxy, lan6,
                   lan4, served>>

\* main.rs 153, cmd.rs 31-79: open_socks5_proxy(..)?; a command of it can
\* fail to run or end with a failure status, before or after the one that
\* turns the setting on
Open ==
    /\ mainExit = "running"
    /\ mainPc = "Open"
    /\ \E how \in {"ok", "err", "panic"} :
         /\ calls' = Append(calls, Call("open", how = "ok"))
         /\ IF how = "ok"
            THEN mainPc' = "VTun" /\ proxy' = "on" /\ UNCHANGED mainExit
            ELSE MainEnds(how) /\ proxy' \in {"off", "on"}
    /\ UNCHANGED <<sessionVars, listener, nFailed, codecVars, sigPc, lan6,
                   lan4, served>>

\* main.rs 154-164: the tunnel is made and configured; config_with(..)? can
\* fail
VTunConfigWith ==
    /\ mainExit = "running"
    /\ mainPc = "VTun"
    /\ \E ok \in BOOLEAN :
         IF ok
         THEN mainPc' = "Serving" /\ listener' = "accepting" /\ UNCHANGED mainExit
         ELSE MainEnds("err") /\ UNCHANGED listener
    /\ UNCHANGED <<sessionVars, nFailed, codecVars, sigPc, calls, proxy, lan6,
                   lan4, served>>

\* main.rs 166-170: accept returns a connection and its session task is
\* spawned; the session itself is followed under Spec
Serve ==
    /\ mainExit = "running"
    /\ mainPc = "Serving"
    /\ listener = "accepting"
    /\ served' = Min(served + 1, MaxServed)
    /\ UNCHANGED <<sessionVars, listener, nFailed, codecVars, mainPc, mainExit,
                   sigPc, calls, proxy, lan6, lan4>>

\* main.rs 26-27: the closure of the signal task calls close_socks5_proxy
CloseOnSignal(cs, ok) == Append(cs, Call("close", ok))

\* main.rs 25-41, 130: ctrl_c() completes, with the signal or with an error;
\* close_socks5_proxy().unwrap() is called, then std::process::exit(0). When
\* the close fails the task panics and the process goes on without it.
RegisterGracefulShutdown ==
    /\ mainExit = "running"
    /\ sigPc = "waiting"
    /\ \E ok \in BOOLEAN :
         /\ calls' = CloseOnSignal(calls, ok)
         /\ IF ok
            THEN /\ proxy' = "off"
                 /\ mainExit' = "exit0"
                 /\ UNCHANGED sigPc
            ELSE /\ sigPc' = "dead"
                 /\ UNCHANGED <<proxy, mainExit>>
    /\ UNCHANGED <<sessionVars, listener, nFailed, codecVars, mainPc, lan6,
                   lan4, served>>

\* the process starts: nothing is bound, no session exists, the system's
\* proxy setting is what the last run left
MainInit ==
    /\ NoSession
    /\ listener = "unbound"
    /\ nFailed = 0
    /\ CodecIdle
    /\ mainPc = "ExtIpV6"
    /\ mainExit = "running"
    /\ sigPc = "waiting"
    /\ calls = <<>>
    /\ proxy \in {"on", "off"}
    /\ lan6 = "none"
    /\ lan4 = "none"
    /\ served = 0

MainNext ==
    \/ ExtIpV6
    \/ ExtIpV4
    \/ LanIpV6
    \/ LanIpV4
    \/ CloseAtStart
    \/ Bind
    \/ Open
    \/ VTunConfigWith
    \/ Serve
    \/ AcceptFails
    \/ RegisterGracefulShutdown

MainSpec == MainInit /\ [][MainNext]_vars

----------------------------------------------------------------------------
(* Properties *)

\* the octets written to the client after the HandshakeResponse
ReplyOctets == DropN(out, hrespN)

Offers(m) == \E i \in 1..Len(offered) : offered[i] = m

\* the method selection policy of the session driver
PreferredMethod ==
    IF CredentialsConfigured /\ Offers("UsernameOrPassword") THEN "UsernameOrPassword"
    ELSE IF Offers("NoAuthenticationRequired") THEN "NoAuthenticationRequired"
    ELSE "NoAcceptableMethods"

\* C1: once the greeting is decoded and the HandshakeResponse is written, its
\* method is UserPass if credentials are configured and UserPass was offered,
\* else NoAuth if NoAuth was offered, else NoAcceptable; and after NoAcceptable
\* the session is closed without having read a request.
C1_MethodSelection ==
    (pc # "Handshake" /\ failure # "handshake" /\ hrespN = 2) =>
        /\ out[2] = AuthMethodInto(PreferredMethod)
        /\ PreferredMethod = "NoAcceptableMethods" =>
                (pc = "Closed" /\ tellreq = NoReq)

\* C2: with credentials configured and UserPass offered, a TellRequest is read
\* only after the user/pass subnegotiation ended with the result Succeeded
\* (01 00) written after the HandshakeResponse.
C2_AuthBeforeRequest ==
    (CredentialsConfigured /\ Offers("UsernameOrPassword") /\ hrespN = 2
        /\ tellreq # NoReq) =>
        /\ Len(out) >= hrespN + 2
        /\ SubSeq(out, hrespN + 1, hrespN + 2) = <<AUTH_VERSION, 0>>

\* C3: on every terminal path the client TCP stream is closed exactly once: it
\* is closed when the session is Closed, open before, and never closed twice.
C3_ClosedExactlyOnce ==
    /\ closes <= 1
    /\ pc = "Closed" <=> closes = 1

\* a CONNECT session whose relay ran to its end: the stream was shut down by
\* the relay and by impl_connect, and closed once
C3_Witness ==
    /\ pc = "Closed"
    /\ closes = 1
    /\ tellreq.cmd = "Connect"
    /\ shutdowns = 2
    /\ failure = "none"

\* C4: nothing is relayed in either direction of a CONNECT or UDP ASSOCIATE
\* session unless the complete ReplyResponse with the reply field Succeeded has
\* been written to the client before.
C4_ReplyBeforeRelay ==
    (nC2O > 0 \/ nO2C > 0 \/ nUp > 0 \/ nDown > 0) =>
        /\ replies = 1
        /\ rep = "Succeeded"
        /\ ReplyOctets =
             ReplyResponseAsBytes("Succeeded",
                 IF tellreq.cmd = "Connect" THEN AddressDefault ELSE CLocal)

C4_Witness ==
    /\ tellreq.cmd = "UdpAssociate"
    /\ nUp > 0
    /\ nDown > 0
    /\ replies = 1

\* C5 as stated: once one direction of the CONNECT relay has reached
\* end-of-stream, nothing more is copied in the other direction.
C5_NoCopyAfterEof == ~lateCopy

\* C5 amended: the CONNECT relay ends only with an I/O error or once both
\* directions have reached end-of-stream.
C5_RelayEndsOnErrorOrBothEof ==
    [][(pc = "ConnectRelay" /\ pc' # "ConnectRelay") =>
          (failure' = "relay" \/ (c2o = "done" /\ o2c = "done"))]_vars

\* a relay that copied after the first end-of-stream and ended with the second
C5_Witness ==
    /\ pc = "Shutdown"
    /\ tellreq.cmd = "Connect"
    /\ lateCopy
    /\ c2o = "done"
    /\ o2c = "done"

\* C6: whenever the controlling TCP stream has ended during a UDP relay, the
\* session is eventually closed, also while datagrams keep arriving.
C6_ControlTeardown == (pc = "UdpRelay" /\ tState # "open") ~> (pc = "Closed")

\* a relay that forwarded a datagram and was ended by the control leg
C6_Witness ==
    /\ pc = "Closed"
    /\ tellreq.cmd = "UdpAssociate"
    /\ rep = "Succeeded"
    /\ tState = "eof"
    /\ failure = "none"
    /\ nUp > 0

\* C7: a client datagram that fails to decode never ends the relay.
C7_DecodeFailureKeepsRelay == failure # "udp_decode"

\* C8: a session that wrote its HandshakeResponse and decoded a BIND request
\* read in one piece, and whose reply write did not fail, ends having written
\* exactly 05 07 00 01 00 00 00 00 00 00 and having opened no outbound socket.
C8_BindReply ==
    (pc = "Closed" /\ tellreq.cmd = "Bind" /\ hrespN = 2 /\ inbuf = <<>>
        /\ failure # "reply") =>
        /\ ReplyOctets = <<5, 7, 0, 1, 0, 0, 0, 0, 0, 0>>
        /\ outbound = "none"
        /\ sockC = "none"
        /\ sockO = "none"

\* C9: after a refused outbound connect of a CONNECT request the relay never
\* runs, and once the reply is written it is exactly 05 05 00 01 00 00 00 00
\* 00 00, nothing was relayed and no outbound stream is open.
C9_ConnectRefused ==
    (tellreq.cmd = "Connect" /\ setupErr = "ConnectionRefused") =>
        /\ pc \in {"ConnectReply", "Shutdown", "Return", "Closed"}
        /\ nC2O = 0 /\ nO2C = 0
        /\ outbound # "open"
        /\ (pc \in {"Shutdown", "Return", "Closed"} /\ failure # "reply") =>
                ReplyOctets = <<5, 5, 0, 1, 0, 0, 0, 0, 0, 0>>

C9_Witness ==
    /\ pc = "Closed"
    /\ tellreq.cmd = "Connect"
    /\ setupErr = "ConnectionRefused"
    /\ ReplyOctets = <<5, 5, 0, 1, 0, 0, 0, 0, 0, 0>>

\* the mapping table of the error handling design
TableAsStated(cmd, kind) ==
    CASE kind = "ConnectionRefused" -> "ConnectionRefused"
      [] kind \in {"ConnectionReset", "NotConnected"} -> "GeneralSocksServerFailure"
      [] kind = "ConnectionAborted" -> "ConnectionNotAllowedByRuleSet"
      [] kind = "TimedOut" ->
            IF cmd = "Connect" THEN "TTLExpired" ELSE "NetworkUnreachable"
      [] OTHER -> "Unassigned"

\* the same table with TimedOut mapped to NetUnreach for both commands
TableAmended(kind) ==
    CASE kind = "ConnectionRefused" -> "ConnectionRefused"
      [] kind \in {"ConnectionReset", "NotConnected"} -> "GeneralSocksServerFailure"
      [] kind = "ConnectionAborted" -> "ConnectionNotAllowedByRuleSet"
      [] kind = "TimedOut" -> "NetworkUnreachable"
      [] OTHER -> "Unassigned"

FailedSetupReplied ==
    /\ tellreq.cmd \in {"Connect", "UdpAssociate"}
    /\ setupErr # "none"
    /\ replies = 1

\* C10 as stated: the reply field written for a failed setup follows the
\* table, with TimedOut giving TTLExpired for CONNECT and NetUnreach for UDP
\* ASSOCIATE.
C10_MappingAsStated ==
    FailedSetupReplied =>
        ReplyOctets[2] = ReplyFieldInto(TableAsStated(tellreq.cmd, setupErr))

\* C10 amended: the reply field written for a failed setup follows the table,
\* with TimedOut giving NetUnreach for CONNECT and for UDP ASSOCIATE.
C10_MappingAmended ==
    FailedSetupReplied => ReplyOctets[2] = ReplyFieldInto(TableAmended(setupErr))

\* a CONNECT whose outbound connect timed out and was answered with 03
C10_Witness ==
    /\ tellreq.cmd = "Connect"
    /\ setupErr = "TimedOut"
    /\ replies = 1
    /\ ReplyOctets[2] = 3

\* a greeting with a wrong VER or fewer octets than VER, NMETHODS and the
\* methods take
MalformedGreeting(g) ==
    \/ Len(g) < 2
    \/ g[1] # SOCKS_VERSION
    \/ Len(g) < 2 + g[2]

\* a request with a wrong VER, an unknown CMD, a non-zero RSV, an unknown ATYP
\* or fewer octets than its header and address take
MalformedRequest(q) ==
    \/ Len(q) < 5
    \/ q[1] # SOCKS_VERSION
    \/ q[2] \notin {1, 2, 3}
    \/ q[3] # RSV_RESERVED
    \/ q[4] \notin {1, 3, 4}
    \/ Len(q) < 4 + (CASE q[4] = 1 -> 6 [] q[4] = 4 -> 18 [] OTHER -> 3 + q[5])

\* C11: a malformed greeting or request fails to decode, and a session whose
\* HandshakeRequest or TellRequest failed to decode has written no
\* ReplyResponse; after a HandshakeRequest failure it has written no octet.
C11_CodecErrorSilent ==
    /\ \A g \in Greetings : MalformedGreeting(g) => ~HandshakeRequestFrom(g).ok
    /\ \A q \in Requests, got \in NameReads :
            MalformedRequest(q) => ~TellRequestFrom(q, got).ok
    /\ failure = "handshake" => (out = <<>> /\ replies = 0)
    /\ failure = "request" => (ReplyOctets = <<>> /\ replies = 0)

\* a session that answered the greeting and ended on an undecodable request
C11_Witness ==
    /\ pc = "Closed"
    /\ failure = "request"
    /\ out = <<5, 0>>
    /\ tellreq = NoReq

\* C12: a CONNECT or UDP ASSOCIATE session that ended on a setup error has
\* written a ReplyResponse with a non-success reply field.
C12_SetupErrorReplied ==
    (pc = "Closed" /\ failure = "setup") => (replies = 1 /\ rep # "Succeeded")

\* C13: the step that ends a session, whatever it ended with, leaves the
\* accept loop accepting.
C13_ListenerSurvives ==
    [][(pc # "Closed" /\ pc' = "Closed") => listener' = "accepting"]_vars

\* after a failed session the next connection was accepted and its session
\* got as far as reading the request
C13_Witness ==
    /\ nFailed = MaxCount
    /\ listener = "accepting"
    /\ pc = "Request"
    /\ hrespN = 2

CanonicalOctet(ty, x) ==
    CASE ty = "AuthMethod" /\ x >= 3 /\ x <= 127 -> 3
      [] ty = "AuthMethod" /\ x >= 128 /\ x <= 254 -> 128
      [] ty = "ReplyField" /\ x >= 9 -> 9
      [] OTHER -> x

C15_DecodeEncode ==
    /\ (done /\ test = "Variant") => (result.ok /\ result.val = input.v)
    /\ (done /\ test \in CodePointTypes) =>
            (result.ok <=>
                \/ test \in {"AuthMethod", "ReplyField"}
                \/ test = "Command" /\ input \in {1, 2, 3}
                \/ test = "AddressType" /\ input \in {1, 3, 4})

\* the range variant Unassigned came back as itself
C15_Witness ==
    /\ done
    /\ test = "Variant"
    /\ input = [type |-> "ReplyField", v |-> "Unassigned"]
    /\ result.ok
    /\ result.val = "Unassigned"

\* C16: a TellRequest or ReplyResponse, serialized and read back from a reader
\* holding all its octets, has the same command or reply field, address type,
\* address and port, and no octet is left over.
C16_MessageRoundTrip ==
    /\ (done /\ test = "TellRequest") =>
            /\ result.ok
            /\ result.cmd = input.cmd
            /\ result.atyp = input.atyp
            /\ result.addr = input.addr
            /\ result.rest = <<>>
    /\ (done /\ test = "ReplyResponse") =>
            /\ result.ok
            /\ result.rep = input.rep
            /\ AddressTypeFromAddress(result.addr) = AddressTypeFromAddress(input.addr)
            /\ result.addr = input.addr
            /\ result.rest = <<>>

\* a reply with a domain name of 255 octets came back
C16_Witness ==
    /\ done
    /\ test = "ReplyResponse"
    /\ input.addr.kind = "Domain"
    /\ Len(input.addr.host) = 255
    /\ result.ok
    /\ result.addr = input.addr

\* C17: a UdpPacket, serialized and decoded, has the same frag, address and
\* payload.
C17_DatagramRoundTrip ==
    (done /\ test = "UdpPacket") =>
        /\ result.res = "ok"
        /\ result.frag = input.frag
        /\ result.addr = input.addr
        /\ result.data = input.data

\* C18: an address serializes to 6 octets (IPv4), 18 (IPv6) or 3 + len(name)
\* (Domain), and Address::len reports the number of octets serialized.
C18_LenIsSerializedLength ==
    (done /\ test = "AddressLen") =>
        /\ Len(result.bytes) =
             (CASE input.kind = "V4" -> 6
                [] input.kind = "V6" -> 18
                [] OTHER -> 3 + Len(input.host))
        /\ result.len = Len(result.bytes)

\* a read of the name that delivered fewer octets than the length octet says
ShortNameRead ==
    /\ input.atyp = "FQDN"
    /\ Len(input.bytes) >= 1
    /\ Min(input.got, Len(input.bytes) - 1) < input.bytes[1]

\* C19: decoding an FQDN address whose name read delivered fewer octets than
\* the length octet says returns an error.
C19_ShortReadIsError ==
    (done /\ test = "AddressRead" /\ ShortNameRead) => ~result.ok

\* C20: every completely written ReplyResponse whose reply field is not
\* Succeeded carries the address 0.0.0.0:0.
C20_FailureReplyUnspecified ==
    (replies = 1 /\ rep # "Succeeded") =>
        ReplyOctets = ReplyResponseAsBytes(rep, AddressDefault)

----------------------------------------------------------------------------
(* The UDP relay: the slot, the select and the teardown *)

\* C24: a downstream datagram sent to C's own address (the slot's initial
\* value) is discarded there: the upstream leg never receives a datagram whose
\* source is C itself.
C24_PrematureDiscarded ==
    ~(pc = "UdpRelay" /\ upHeld.stage # "none" /\ upHeld.peer = "C")

\* whether a leg holds a datagram it has received and not yet sent on
Held(h) == IF h.stage = "none" THEN 0 ELSE 1

\* C25: while the relay goes on, a step lets go of at most one held datagram,
\* the one of the leg that completes; the datagram the other leg has received
\* stays held.
C25_OtherLegKeepsDatagram ==
    [][(pc = "UdpRelay" /\ pc' = "UdpRelay") =>
         Held(upHeld') + Held(downHeld') >= Held(upHeld) + Held(downHeld) - 1]_vars

\* C26 as stated: once T has been shut down in a UDP ASSOCIATE session, both
\* UDP sockets are already closed.
C26_SocketsClosedBeforeShutdown ==
    (tellreq.cmd = "UdpAssociate" /\ shutdowns > 0) =>
        (sockC = "closed" /\ sockO = "closed")

\* C26 amended: T is shut down while both UDP sockets are still open, and the
\* sockets are closed when the session function has returned.
C26_ShutdownBeforeSocketsClose ==
    tellreq.cmd = "UdpAssociate" =>
        /\ pc \in {"Shutdown", "Return"} => (sockC = "open" /\ sockO = "open")
        /\ (pc = "Closed" /\ shutdowns > 0) =>
               (sockC = "closed" /\ sockO = "closed")

\* C26 witness: a relay torn down by the control leg has shut T down and still
\* holds both sockets.
C26_Witness ==
    /\ tellreq.cmd = "UdpAssociate"
    /\ pc = "Return"
    /\ shutdowns = 1
    /\ tState = "eof"
    /\ sockC = "open"
    /\ sockO = "open"

\* C27 as stated: the destination a downstream packet is about to be sent to
\* is the value the slot holds.
C27_SentToCurrentSlot ==
    (pc = "UdpRelay" /\ downHeld.stage = "locked") => downHeld.peer = incoming

\* C27 amended: the slot starts as C's local address, is written only by the
\* upstream leg, with the source of the datagram it has decoded, and the
\* downstream leg takes as destination the value the slot holds when it reads
\* the slot.
C27_SlotFollowsDecodedDatagrams ==
    [][/\ (pc # "UdpRelay" /\ pc' = "UdpRelay") => incoming' = "C"
       /\ (pc = "UdpRelay" /\ pc' = "UdpRelay") =>
            /\ incoming' # incoming => upHeld.stage = "recvd"
            /\ (upHeld.stage = "recvd" /\ upHeld'.stage = "locked") =>
                   incoming' = upHeld.peer
            /\ (downHeld.stage = "recvd" /\ downHeld'.stage = "locked") =>
                   downHeld'.peer = incoming]_vars

\* C27 witness: the slot was re-pinned from the client to a stranger while the
\* downstream leg still holds the client as the destination it read.
C27_Witness ==
    /\ pc = "UdpRelay"
    /\ incoming = "stranger"
    /\ downHeld.stage = "locked"
    /\ downHeld.peer = "client"

\* C30 as stated: a datagram sent to the client is the serialization of
\* UdpPacket(0, address of the TellRequest, payload).
C30_CarriesRequestAddress ==
    sentDown # <<>> =>
        \E data \in OriginPayloads :
            sentDown = UdpPacketAsSocksBytes(0, tellreq.addr, data)

\* C30 amended: a datagram sent to the client is RSV 00 00, FRAG 00, then the
\* ATYP, address and port of the socket address the TellRequest address
\* resolved to (an IP address, never a Domain), then the payload.
C30_CarriesResolvedAddress ==
    sentDown # <<>> =>
        /\ dest.kind \in {"V4", "V6"}
        /\ \E data \in OriginPayloads :
             sentDown = <<0, 0, 0, IF dest.kind = "V4" THEN 1 ELSE 4>>
                        \o (IF dest.kind = "V4" THEN dest.host
                            ELSE V6Octets(dest.host))
                        \o U16ToBe(dest.port) \o data

\* C30 witness: the request named a domain and the datagram sent to the client
\* carries an IPv4 address.
C30_Witness ==
    /\ tellreq.addr.kind = "Domain"
    /\ sentDown # <<>>
    /\ sentDown[4] = 1

----------------------------------------------------------------------------
(* Version and reserved octets *)

\* the first octet a decoder takes
VersionOf(decoder) ==
    IF decoder \in {"UsernamePasswordAuth", "UsernamePasswordAuthResult"}
    THEN 1 ELSE 5

\* C21: a SOCKS message decoder succeeds on a well-formed message exactly when
\* its first octet is 0x05, a user/pass decoder exactly when it is 0x01, and
\* the TellRequest and ReplyResponse decoders exactly when RSV is 0x00; a
\* decoder that fails yields the error and no message value.
C21_VersionAndRsvChecked ==
    /\ (done /\ test = "Version") =>
          /\ result.ok <=> input.ver = VersionOf(input.decoder)
          /\ ~result.ok => result = Fail
    /\ (done /\ test = "Rsv") =>
          /\ result.ok <=> input.rsv = 0
          /\ ~result.ok => result = Fail

\* C21 witness: a user/pass message that starts with the SOCKS version has
\* been refused, and a request whose RSV is 1 has been refused.
C21_Witness ==
    /\ done
    /\ \/ /\ test = "Version"
          /\ input.decoder = "UsernamePasswordAuth"
          /\ input.ver = 5
       \/ /\ test = "Rsv"
          /\ input.decoder = "TellRequest"
          /\ input.rsv = 1
    /\ ~result.ok

\* C28: a datagram whose two RSV octets are not zero is not decoded into a
\* packet.
C28_DatagramRsvChecked ==
    (done /\ test = "Datagram" /\ (input[1] # 0 \/ input[2] # 0)) =>
        result.res # "ok"

\* the octets of a datagram after RSV, FRAG, ATYP, DST.ADDR and DST.PORT
PayloadOf(d) ==
    DropN(d, 4 + (CASE d[4] = 1 -> 6
                    [] d[4] = 3 -> 1 + d[5] + 2
                    [] OTHER -> 18))

\* C29: the payload the upstream leg takes out of a decoded datagram, which
\* is what it sends to the origin, is the octets that follow the header,
\* whatever the header's address and FRAG are.
C29_PayloadUnmodified ==
    (done /\ test = "Datagram" /\ result.res = "ok") =>
        result.data = PayloadOf(input)

\* C23: the conversion of a "host:port" text gives the IPv4 address, the IPv6
\* address or the Domain the text writes, with the port that follows the last
\* colon.
C23_HostPortClassified ==
    (done /\ test = "HostPort") => result = [res |-> "ok", val |-> input.addr]

\* C23 witness: a bracketed IPv6 text, whose host holds colons, has been
\* converted to an IPv6 address.
C23_Witness ==
    /\ done
    /\ test = "HostPort"
    /\ input.text[1] = "["
    /\ result.res = "ok"
    /\ result.val.kind = "V6"
    /\ result.val.port = 8080

----------------------------------------------------------------------------
(* The proxy enabler over the life of the process *)

\* open_socks5_proxy has returned Ok
Opened == \E i \in 1..Len(calls) : calls[i] = Call("open", TRUE)

\* C22: the first enabler call main makes is a close, made before any open,
\* and when the process has stopped after open() succeeded, the last enabler
\* call is a close.
C22_CloseAtStartAndOnShutdown ==
    /\ calls # <<>> => calls[1].fn = "close"
    /\ (mainExit # "running" /\ Opened) => calls[Len(calls)].fn = "close"

----------------------------------------------------------------------------
(* Order within a leg *)

----------------------------------------------------------------------------
(* Failures of address conversion *)

\* C32: a text that writes no address, and an address that does not resolve
\* (the lookup fails or answers nothing), make the conversion return an error
\* value; the conversion never panics.
C32_ConversionFailureIsErr ==
    /\ (done /\ test = "BadText") => result.res = "err"
    /\ (done /\ test = "Resolve") => result.res # "panic"

----------------------------------------------------------------------------
(* The method list of a greeting *)

\* C33: a decoded HandshakeRequest holds 1 to 255 methods, those of the
\* greeting in their order, and the NMETHODS octet of a serialized one is the
\* number of method octets that follow it.
C33_MethodCount ==
    /\ (done /\ test = "Greeting" /\ result.ok) =>
          /\ Len(result.methods) \in 1..255
          /\ \A i \in 1..Len(result.methods) :
                result.methods[i] = AuthMethodFrom(input[2 + i])
    /\ (done /\ test = "Methods") =>
          result.bytes[2] = Len(result.bytes) - 2

----------------------------------------------------------------------------
(* IP discovery at start-up *)

\* C34: main never ends with an error before all four address lookups are
\* behind it: a lookup that fails is replaced by the loopback address and
\* start-up goes on to bind the listener.
C34_DiscoveryNeverAborts ==
    mainExit \in {"err", "panic"} => (lan6 # "none" /\ lan4 # "none")

----------------------------------------------------------------------------
(* The session after the greeting *)

\* C35: a session that has decoded a TellRequest has written both octets of
\* its HandshakeResponse before.
C35_RequestAfterWholeResponse == tellreq # NoReq => hrespN = 2

\* a is a prefix of b
IsPrefix(a, b) == Len(a) <= Len(b) /\ a = Take(b, Len(a))

\* C36: at most one ReplyResponse is written in a session (what follows the
\* HandshakeResponse on the stream is one reply or the beginning of one), no
\* octet of it before a TellRequest was decoded, and while the session relays,
\* with its outbound stream or its two UDP sockets open, that reply was
\* written whole and is Succeeded.
C36_OneReplyThenRelay ==
    /\ replies <= 1
    /\ \E a \in {AddressDefault, CLocal} :
          IsPrefix(ReplyOctets, ReplyResponseAsBytes(rep, a))
    /\ ReplyOctets # <<>> => tellreq # NoReq
    /\ pc \in {"ConnectRelay", "UdpRelay"} =>
          /\ replies = 1
          /\ rep = "Succeeded"
          /\ Take(ReplyOctets, 2) = <<5, 0>>

\* C36 witness: a CONNECT session relays octets over its open outbound stream
\* after its one reply.
C36_Witness ==
    /\ pc = "ConnectRelay"
    /\ outbound = "open"
    /\ replies = 1
    /\ nC2O > 0

\* C37: a session that closed because the destination of a CONNECT or UDP
\* ASSOCIATE request did not resolve has written a whole ReplyResponse that is
\* not Succeeded.
C37_UnresolvedIsReplied ==
    (/\ pc = "Closed"
     /\ tellreq.cmd \in {"Connect", "UdpAssociate"}
     /\ dest = NoAddr
     /\ failure \in {"resolve", "panic"}) =>
        (replies = 1 /\ rep # "Succeeded")

\* C38: during a UDP relay, a step in which a data octet leaves the
\* controlling stream keeps the session relaying and sends nothing: the held
\* datagrams, what was sent on either socket and on the stream, the counters
\* and the failure are as before; and the relay goes to its shutdown (the way
\* of the control leg, which leaves the failure as it was) only when the
\* stream is at its end, all data read, or in error.
C38_ControlDataDiscarded ==
    [][pc = "UdpRelay" =>
         /\ Len(inbuf') < Len(inbuf) =>
                /\ pc' = "UdpRelay"
                /\ nCtl' = Sat(nCtl)
                /\ UNCHANGED <<out, sentUp, sentDown, loopback, upHeld,
                               downHeld, nUp, nDown, upDropped, incoming,
                               failure, sockC, sockO, closes, shutdowns,
                               tState>>
         /\ (pc' = "Shutdown" /\ failure' = failure) =>
                \/ tState = "err"
                \/ tState = "eof" /\ inbuf = <<>>]_vars

\* C38 witness: the client has sent a data octet on the controlling stream,
\* it was read and dropped, and the relay is still up with the stream open
\* and forwards a datagram.
C38_Witness ==
    /\ pc = "UdpRelay"
    /\ tState = "open"
    /\ nCtl > 0
    /\ inbuf = <<>>
    /\ upHeld.stage = "locked"
    /\ failure = "none"

============================================================================
